---- MODULE Spec2Model ----
(***************************************************************************)
(* Model of the AgentBridge MCP gateway: the module catalog                *)
(* (src/services/__init__.py) and the MCPServer session with its JSON-RPC  *)
(* dispatch loop (src/server.py).                                          *)
(*                                                                         *)
(* One step of the model is one iteration of MCPServer.run: a line is      *)
(* read, handled to completion and its response (if any) written.  The     *)
(* variable `step` records what that iteration read, called and wrote.     *)
(*                                                                         *)
(* Spec is the loop under every kind of line.  SpecLoad is the loop fed    *)
(* only load_modules calls and initialize requests; there the step also    *)
(* records the requested list, so that two calls in a row can be compared. *)
(*                                                                         *)
(* The catalog is a slice of the source's tables: three of the seven       *)
(* modules, one or two tools of each, and three of the registered          *)
(* services.  Every entry kept is an entry of the source; module names     *)
(* outside the slice are dropped from the profile lists.                   *)
(***************************************************************************)
EXTENDS Integers, Sequences, FiniteSets, TLC

\* ------------------------------------------------------------------------
\* Bounds of the model
\* ------------------------------------------------------------------------

\* longest `modules` list of a load_modules request
MaxReq == 2

\* cap of the per-service count of successful connects
MaxConnects == 2

\* ------------------------------------------------------------------------
\* Catalog (src/services/__init__.py)
\* ------------------------------------------------------------------------

\* MODULES, in dict order
ModuleOrder == <<"core", "editor", "world_partition">>

ModuleNames == {ModuleOrder[i] : i \in 1..Len(ModuleOrder)}

\* MODULES[m]["tools"]
MODULES ==
  [m \in ModuleNames |->
     CASE m = "core"            -> <<"help">>
       [] m = "editor"          -> <<"play_in_editor">>
       [] m = "world_partition" -> <<"is_world_partitioned", "query_all_actors">>]

\* _registry after _import_all_services, in registration order
RegistryOrder == <<"agentbridge", "tempo_actor_control", "editor">>

ServiceNames == {RegistryOrder[i] : i \in 1..Len(RegistryOrder)}

\* the names of ServiceModule.tools of each registered service
REGISTRY ==
  [s \in ServiceNames |->
     CASE s = "agentbridge"         -> <<"help", "is_world_partitioned">>
       [] s = "tempo_actor_control" -> <<>>
       [] s = "editor"              -> <<"play_in_editor">>]

\* PROFILES at import time
PROFILES0 ==
  [p \in {"core", "standard", "full"} |->
     CASE p = "core"       -> <<"core">>
       [] p = "standard"   -> <<"core", "editor">>
       [] p = "full"       -> ModuleOrder]

ProfileNames == DOMAIN PROFILES0

\* DEFAULT_PROFILE with AGENTBRIDGE_PROFILE unset
DEFAULT_PROFILE == "full"

\* constructor defaults
Host == "localhost"

Port == 50051

\* ------------------------------------------------------------------------
\* Helpers on sequences
\* ------------------------------------------------------------------------

Range(s) == {s[i] : i \in 1..Len(s)}

SeqsUpTo(S, n) == UNION {[1..k -> S] : k \in 0..n}

\* ------------------------------------------------------------------------
\* Catalog functions
\* ------------------------------------------------------------------------

\* the profile names a caller may pass; an unknown name falls back
UnknownProfile == "no_such_profile"

get_profile_modules(profiles, profile) ==
  IF profile \in DOMAIN profiles THEN profiles[profile]
  ELSE profiles[DEFAULT_PROFILE]

\* the list object that get_profile_modules returns
ProfileKey(profile) ==
  IF profile \in ProfileNames THEN profile ELSE DEFAULT_PROFILE

get_enabled_tools(modules) ==
  UNION {Range(MODULES[m]) : m \in Range(modules) \cap ModuleNames}

\* FilteredServiceModule.tools
FilteredTools(s, enabled_tools) ==
  SelectSeq(REGISTRY[s], LAMBDA t : t \in enabled_tools)

\* A dict of services is a function on all registered names; a service is a
\* key of the dict iff its filtered tool list is not empty (the source keeps
\* a service `if filtered_service.tools`).
get_filtered_services(enabled) ==
  [s \in ServiceNames |-> FilteredTools(s, get_enabled_tools(enabled))]

\* the keys of a dict of services
Keys(svcs) == {s \in ServiceNames : svcs[s] # <<>>}

\* all tool names of the catalog
CatalogTools == UNION {Range(MODULES[m]) : m \in ModuleNames}

\* every tool name of the catalog or of a registered service
ToolUniverse == CatalogTools \cup UNION {Range(REGISTRY[s]) : s \in ServiceNames}

\* tool_to_service.get(name) is "" where the dict has no such key
NoService == ""

\* the tool -> service mapping loop; a later service overwrites an earlier
LastProvider(svcs, t) ==
  LET idx == {i \in 1..Len(RegistryOrder) : t \in Range(svcs[RegistryOrder[i]])}
  IN  IF idx = {} THEN NoService
      ELSE RegistryOrder[CHOOSE i \in idx : \A j \in idx : j <= i]

BuildIndex(svcs) == [t \in ToolUniverse |-> LastProvider(svcs, t)]

\* the keys of the index
Indexed(index) == {t \in ToolUniverse : index[t] # NoService}

\* first module, in dict order, whose tool list has the tool
module_for_tool(t) ==
  LET idx == {i \in 1..Len(ModuleOrder) : t \in Range(MODULES[ModuleOrder[i]])}
  IN  ModuleOrder[CHOOSE i \in idx : \A j \in idx : i <= j]


\* ------------------------------------------------------------------------
\* Session state (MCPServer) and the dispatch loop
\* ------------------------------------------------------------------------

VARIABLES
  PROFILES,         \* services.PROFILES: profile name -> list of module names
  profile_ref,      \* the profile whose list object enabled_modules is, or "none"
  enabled_modules,  \* self.enabled_modules
  services,         \* self.services: service name -> its filtered tool names
  tool_to_service,  \* self.tool_to_service
  clients,          \* self.clients: service name -> client, None if no key
  connects,         \* per service, how many times connect has returned a client
  running,          \* the while loop of run has not left
  step,             \* what the last iteration of run read, called and wrote
  stdin,            \* the lines of the input, where a specification feeds them
  stdout,           \* the responses written, where a specification keeps them
  pc,               \* the position inside one iteration of run
  cur,              \* how many lines of stdin have been read
  call              \* the application of a pure function: its input and result

vars == <<PROFILES, profile_ref, enabled_modules, services, tool_to_service,
          clients, connects, running, step, stdin, stdout, pc, cur, call>>

\* what the specifications of whole iterations leave alone
others == <<stdin, stdout, pc, cur, call>>

\* a JSON value that is not hashable (a list or an object)
Unhashable == "<unhashable>"

\* a module name that is not in the catalog
BogusModule == "bogus"

\* a tool name that is in no catalog module
NoSuchTool == "nonexistent"

\* str(e) of the exception a module's execute raises
ExcMessage == "backend failure"

\* a client is a positive number (the serial of the connect that made it);
\* None stands for "no client"
None == 0

NoStep ==
  [line |-> "none", id |-> 0, method |-> "", params |-> "", name |-> "",
   arguments |-> "", modules_kind |-> "", modules |-> <<>>, repeat |-> FALSE,
   wrote |-> FALSE, envelope |-> "none", isError |-> FALSE, text |-> "none",
   module |-> "", service |-> "", host |-> "", port |-> 0, detail |-> "",
   loaded_modules |-> <<>>, new_tools |-> <<>>,
   total_modules |-> 0, total_tools |-> 0, tools |-> <<>>,
   code |-> 0, connect_tried |-> {}, connect_ok |-> {}, executed |-> "",
   exec_raised |-> FALSE, uncaught |-> FALSE]

\* ------------------------------------------------------------------------
\* MCPServer.__init__
\* ------------------------------------------------------------------------

\* the explicit module list, with "core" forced to the front
ExplicitModules(modules) ==
  IF "core" \in Range(modules) THEN modules ELSE <<"core">> \o modules

InitSession(enabled, ref) ==
  /\ PROFILES = PROFILES0
  /\ profile_ref = ref
  /\ enabled_modules = enabled
  /\ services = get_filtered_services(enabled)
  /\ tool_to_service = BuildIndex(get_filtered_services(enabled))
  /\ clients = [s \in ServiceNames |-> None]
  /\ connects = [s \in ServiceNames |-> 0]
  /\ running = TRUE
  /\ step = NoStep

\* the explicit --modules lists the model constructs a session from: with
\* and without "core", a name outside the catalog, a repeated name
InitModuleLists ==
  {<<"core">>, <<"editor">>, <<BogusModule>>, <<"editor", "editor">>}

\* a specification of whole iterations keeps no lines and no responses
WholeIterations ==
  /\ stdin = <<>>
  /\ stdout = <<>>
  /\ pc = "iteration"
  /\ cur = 0

\* no pure function is being applied
NoCall == [fn |-> "", arg |-> <<>>, done |-> FALSE, result |-> <<>>]

Init ==
  /\ \/ \E modules \in InitModuleLists :
          InitSession(ExplicitModules(modules), "none")
     \/ \E profile \in ProfileNames \cup {UnknownProfile} :
          InitSession(get_profile_modules(PROFILES0, profile), ProfileKey(profile))
  /\ WholeIterations
  /\ call = NoCall

\* ------------------------------------------------------------------------
\* MCPServer._get_client
\* ------------------------------------------------------------------------

\* mutant of NeedsConnect: the cache is not consulted
NeedsConnect_uncached(cl, svcs, s) == s \in Keys(svcs)

\* connect is called only when no client is cached for a loaded service
NeedsConnect(cl, svcs, s) == cl[s] = None /\ s \in Keys(svcs)

\* mutant of CacheClient: the client that connect returns is not kept
CacheClient_dropped(cl, s, c) == cl

\* self.clients[service_name] = service.connect(...)
CacheClient(cl, s, c) == [cl EXCEPT ![s] = c]

\* ok: whether service.connect returns (TRUE) or raises (FALSE)
get_client(cl, svcs, cnt, s, ok) ==
  IF NeedsConnect(cl, svcs, s)
  THEN IF ok
       THEN [clients |-> CacheClient(cl, s, cnt[s] + 1),
             connects |-> [cnt EXCEPT ![s] = @ + 1],
             client |-> cnt[s] + 1, tried |-> TRUE, ok |-> TRUE]
       ELSE [clients |-> cl, connects |-> cnt,
             client |-> None, tried |-> TRUE, ok |-> FALSE]
  ELSE [clients |-> cl, connects |-> cnt,
        client |-> cl[s],
        tried |-> FALSE, ok |-> FALSE]

\* ------------------------------------------------------------------------
\* MCPServer._get_all_tools
\* ------------------------------------------------------------------------

RECURSIVE ToolsFrom(_, _)
ToolsFrom(svcs, i) ==
  IF i > Len(RegistryOrder) THEN <<>>
  ELSE svcs[RegistryOrder[i]] \o ToolsFrom(svcs, i + 1)

get_all_tools(svcs) == ToolsFrom(svcs, 1) \o <<"load_modules">>

\* ------------------------------------------------------------------------
\* MCPServer._handle_load_modules
\* ------------------------------------------------------------------------

\* mutant of SkipModule: the test against the enabled modules is missing
SkipModule_unknown_only(m, already) == m \notin ModuleNames

\* the two `continue` tests of the loop; already is the set taken before it
SkipModule(m, already) == m \in already \/ m \notin ModuleNames

\* mutant of AppendModule: the list is assigned instead of appended to
AppendModule_assign(enabled, m) == <<m>>

\* self.enabled_modules.append(module_name)
AppendModule(enabled, m) == Append(enabled, m)

\* acc: [enabled, newly, new_tools, raised]; an unhashable element makes the
\* set membership test raise TypeError, which leaves the loop with what has
\* been appended so far
RECURSIVE LoadLoop(_, _, _, _)
LoadLoop(req, i, already, acc) ==
  IF i > Len(req) THEN acc
  ELSE IF req[i] = Unhashable THEN [acc EXCEPT !.raised = TRUE]
  ELSE IF SkipModule(req[i], already) THEN LoadLoop(req, i + 1, already, acc)
  ELSE LoadLoop(req, i + 1, already,
                [acc EXCEPT !.enabled = AppendModule(@, req[i]),
                            !.newly = Append(@, req[i]),
                            !.new_tools = @ \o MODULES[req[i]]])

\* `if newly_loaded:` guards the rebuild of services and of the index
RebuildNeeded(newly) == newly # <<>>

handle_load_modules(enabled, svcs, index, req) ==
  LET loop == LoadLoop(req, 1, Range(enabled),
                       [enabled |-> enabled, newly |-> <<>>,
                        new_tools |-> <<>>, raised |-> FALSE])
      rebuild == ~loop.raised /\ RebuildNeeded(loop.newly)
      svcs2 == IF rebuild THEN get_filtered_services(loop.enabled) ELSE svcs
      index2 == IF rebuild THEN BuildIndex(svcs2) ELSE index
  IN  [enabled |-> loop.enabled, services |-> svcs2, index |-> index2,
       raised |-> loop.raised, rebuilt |-> rebuild,
       loaded_modules |-> loop.newly, new_tools |-> loop.new_tools,
       total_modules |-> Len(loop.enabled),
       total_tools |-> Cardinality(Indexed(index2)) + 1]

\* mutant of ClientsAfterLoad: the rebuild also empties self.clients
ClientsAfterLoad_cleared(cl, rebuilt) ==
  IF rebuilt THEN [s \in ServiceNames |-> None] ELSE cl

\* what the handler does to self.clients: the rebuild assigns self.services
\* and refills self.tool_to_service, and nothing else
ClientsAfterLoad(cl, rebuilt) == cl

\* enabled_modules.append also appends to the profile's list when
\* enabled_modules is that very list (get_profile_modules returns it)
AppendToProfile(profiles, ref, enabled) ==
  IF ref = "none" THEN profiles ELSE [profiles EXCEPT ![ref] = enabled]


\* ------------------------------------------------------------------------
\* Inputs of the loop
\* ------------------------------------------------------------------------

\* how a JSON member can arrive: an object, absent, null, or another value
ValueKinds == {"object", "missing", "null", "nonobject"}

\* kinds on which `.get` raises AttributeError
NoGet == {"null", "nonobject"}

\* the arguments of a call that is not load_modules are never inspected by
\* the handler, only handed on to execute: they are no input of the model
NotInspected == ""

\* the `name` of a tools/call; "" is also what a missing name defaults to
CallNames == ToolUniverse \cup {"load_modules", NoSuchTool, "", Unhashable}

\* the elements of a requested list: catalog modules (active ones once they
\* are loaded), a name outside the catalog, a value that is not hashable
RequestItems == {"editor", "world_partition", BogusModule, Unhashable}

\* the requested lists: lists of names, and lists that end at their first
\* unhashable element (the loop never gets to what would follow it)
RequestLists ==
  LET names == RequestItems \ {Unhashable}
  IN  SeqsUpTo(names, MaxReq)
        \cup {Append(q, Unhashable) : q \in SeqsUpTo(names, MaxReq - 1)}

\* JSON-RPC error code of an unknown method
MethodNotFound == -32601

\* ------------------------------------------------------------------------
\* Responses (MCPServer._make_response, _make_error and the result bodies)
\* ------------------------------------------------------------------------

Message(method) == [NoStep EXCEPT !.line = "message", !.method = method]

\* run writes the response `if response is not None`
Respond(st, envelope, text) ==
  [st EXCEPT !.wrote = TRUE, !.envelope = envelope, !.text = text]

\* an exception that leaves handle_message: run logs it and reads on
Uncaught(st) == [st EXCEPT !.uncaught = TRUE]

ToolCall(params, name, arguments) ==
  [Message("tools/call") EXCEPT !.params = params, !.name = name,
                                !.arguments = arguments]

LoadResult(st, r) ==
  [Respond(st, "result", "load_result") EXCEPT
     !.loaded_modules = r.loaded_modules, !.new_tools = r.new_tools,
     !.total_modules = r.total_modules, !.total_tools = r.total_tools]

NotLoadedResult(st, name) ==
  [Respond(st, "result", "not_loaded") EXCEPT
     !.isError = TRUE, !.module = module_for_tool(name)]

\* mutant of UnknownToolResult: the error flag is missing
UnknownToolResult_unflagged(st) == Respond(st, "result", "unknown_tool")

UnknownToolResult(st) ==
  [Respond(st, "result", "unknown_tool") EXCEPT !.isError = TRUE]

\* mutant of NotConnectedResult: the text does not say where
NotConnectedResult_nowhere(st, s) ==
  [Respond(st, "result", "not_connected") EXCEPT !.isError = TRUE, !.service = s]

NotConnectedResult(st, s) ==
  [Respond(st, "result", "not_connected") EXCEPT
     !.isError = TRUE, !.service = s, !.host = Host, !.port = Port]

ExecResult(st, s) ==
  [Respond(st, "result", "exec_result") EXCEPT !.service = s, !.executed = s]

\* mutant of ExecErrorResult: the except branch forgets the error flag
ExecErrorResult_unflagged(st, s) ==
  [Respond(st, "result", "exec_error") EXCEPT
     !.detail = ExcMessage, !.service = s, !.executed = s, !.exec_raised = TRUE]

ExecErrorResult(st, s) ==
  [Respond(st, "result", "exec_error") EXCEPT
     !.isError = TRUE, !.detail = ExcMessage, !.service = s, !.executed = s,
     !.exec_raised = TRUE]

\* self.tool_to_service.get(tool_name)
Lookup(index, name) == IF name \in ToolUniverse THEN index[name] ELSE NoService

\* ------------------------------------------------------------------------
\* MCPServer.run: one action per kind of line and per handler outcome
\* ------------------------------------------------------------------------

SessionUnchanged ==
  UNCHANGED <<PROFILES, profile_ref, enabled_modules, services,
              tool_to_service, clients, connects>>

\* readline returns "" : the loop breaks
ReadEOF ==
  /\ running
  /\ running' = FALSE
  /\ step' = [NoStep EXCEPT !.line = "eof"]
  /\ SessionUnchanged
  /\ UNCHANGED others

\* KeyboardInterrupt: the loop breaks
Interrupt ==
  /\ running
  /\ running' = FALSE
  /\ step' = [NoStep EXCEPT !.line = "interrupt"]
  /\ SessionUnchanged
  /\ UNCHANGED others

\* a line that is empty after strip
SkipBlank ==
  /\ running
  /\ step' = [NoStep EXCEPT !.line = "blank"]
  /\ UNCHANGED running
  /\ SessionUnchanged
  /\ UNCHANGED others

\* json.loads raises JSONDecodeError
SkipMalformed ==
  /\ running
  /\ step' = [NoStep EXCEPT !.line = "malformed"]
  /\ UNCHANGED running
  /\ SessionUnchanged
  /\ UNCHANGED others

\* valid JSON that is not an object: message.get raises
HandleNonObject ==
  /\ running
  /\ step' = Uncaught([NoStep EXCEPT !.line = "message"])
  /\ UNCHANGED running
  /\ SessionUnchanged
  /\ UNCHANGED others

\* _handle_initialize: _get_client for every loaded service; oks are the
\* services whose connect returns
HandleInitialize ==
  /\ running
  /\ \E oks \in SUBSET ServiceNames :
       LET tried == {s \in ServiceNames : NeedsConnect(clients, services, s)}
           got == [s \in ServiceNames |->
                     get_client(clients, services, connects, s, s \in oks)]
       IN  /\ oks \subseteq tried
           /\ \A s \in oks : connects[s] < MaxConnects
           /\ clients' = [s \in ServiceNames |-> got[s].clients[s]]
           /\ connects' = [s \in ServiceNames |-> got[s].connects[s]]
           /\ step' = [Respond(Message("initialize"), "result", "initialize")
                         EXCEPT !.connect_tried = {s \in ServiceNames : got[s].tried},
                                !.connect_ok = {s \in ServiceNames : got[s].ok}]
  /\ UNCHANGED <<PROFILES, profile_ref, enabled_modules, services,
                 tool_to_service, running>>
  /\ UNCHANGED others

\* the `initialized` notification: handle_message returns None
HandleInitialized ==
  /\ running
  /\ step' = Message("initialized")
  /\ UNCHANGED running
  /\ SessionUnchanged
  /\ UNCHANGED others

HandleToolsList ==
  /\ running
  /\ step' = [Respond(Message("tools/list"), "result", "tools")
                EXCEPT !.tools = get_all_tools(services)]
  /\ UNCHANGED running
  /\ SessionUnchanged
  /\ UNCHANGED others

HandlePing ==
  /\ running
  /\ step' = Respond(Message("ping"), "result", "empty")
  /\ UNCHANGED running
  /\ SessionUnchanged
  /\ UNCHANGED others

HandleShutdown ==
  /\ running
  /\ step' = Respond(Message("shutdown"), "result", "empty")
  /\ UNCHANGED running
  /\ SessionUnchanged
  /\ UNCHANGED others

\* any other method, and a message without a method
HandleUnknownMethod ==
  /\ running
  /\ \E method \in {"", "resources/list"} :
       step' = [Respond(Message(method), "error", "method_not_found")
                  EXCEPT !.code = MethodNotFound]
  /\ UNCHANGED running
  /\ SessionUnchanged
  /\ UNCHANGED others


\* ------------------------------------------------------------------------
\* MCPServer._handle_tools_call
\* ------------------------------------------------------------------------

\* the name that params.get yields
NameOf(params, name) == IF params = "object" THEN name ELSE ""

\* params is null or not an object: params.get raises
CallBadParams ==
  /\ running
  /\ \E params \in NoGet :
       step' = Uncaught(ToolCall(params, "", ""))
  /\ UNCHANGED running
  /\ SessionUnchanged
  /\ UNCHANGED others

\* name == "load_modules" with arguments on which `.get` raises, or with a
\* `modules` value that cannot be iterated: nothing has been changed yet
CallLoadModulesBadArgs ==
  /\ running
  /\ \/ \E arguments \in NoGet :
          step' = Uncaught(ToolCall("object", "load_modules", arguments))
     \/ step' = Uncaught([ToolCall("object", "load_modules", "object")
                            EXCEPT !.modules_kind = "noniterable"])
  /\ UNCHANGED running
  /\ SessionUnchanged
  /\ UNCHANGED others

\* name == "load_modules": _handle_load_modules on the requested list.
\* record: whether the step keeps the requested list (and whether the step
\* before was a load_modules call that returned for the same list)
LoadModulesCall(record) ==
  /\ running
  /\ \E arguments \in {"object", "missing"}, kind \in {"list", "missing"},
        req \in RequestLists :
       LET r == handle_load_modules(enabled_modules, services, tool_to_service, req)
           st == [ToolCall("object", "load_modules", arguments)
                    EXCEPT !.modules_kind = kind,
                           !.modules = IF record THEN req ELSE <<>>,
                           !.repeat = /\ record
                                      /\ step.text = "load_result"
                                      /\ step.modules_kind = kind
                                      /\ step.modules = req]
       IN  /\ arguments = "missing" => kind = "missing"
           /\ kind = "missing" => req = <<>>
           /\ enabled_modules' = r.enabled
           /\ PROFILES' = AppendToProfile(PROFILES, profile_ref, r.enabled)
           /\ services' = r.services
           /\ tool_to_service' = r.index
           /\ clients' = ClientsAfterLoad(clients, r.rebuilt)
           /\ step' = IF r.raised THEN Uncaught(st) ELSE LoadResult(st, r)
  /\ UNCHANGED <<profile_ref, connects, running>>
  /\ UNCHANGED others

CallLoadModules == LoadModulesCall(FALSE)

CallLoadModulesRecorded == LoadModulesCall(TRUE)

\* a name that is a list or an object: the dict lookup raises TypeError
CallUnhashableName ==
  /\ running
  /\ step' = Uncaught(ToolCall("object", Unhashable, NotInspected))
  /\ UNCHANGED running
  /\ SessionUnchanged
  /\ UNCHANGED others

\* the name is not in the index but in some catalog module
CallNotLoaded ==
  /\ running
  /\ \E params \in {"object", "missing"}, name \in CallNames \ {"load_modules", Unhashable} :
       LET n == NameOf(params, name)
           st == ToolCall(params, n, NotInspected)
       IN  /\ params = "missing" => name = ""
           /\ Lookup(tool_to_service, n) = NoService
           /\ n \in CatalogTools
           /\ step' = NotLoadedResult(st, n)
  /\ UNCHANGED running
  /\ SessionUnchanged
  /\ UNCHANGED others

\* the name is neither in the index nor in the catalog
CallUnknownTool ==
  /\ running
  /\ \E params \in {"object", "missing"}, name \in CallNames \ {"load_modules", Unhashable} :
       LET n == NameOf(params, name)
           st == ToolCall(params, n, NotInspected)
       IN  /\ params = "missing" => name = ""
           /\ Lookup(tool_to_service, n) = NoService
           /\ n \notin CatalogTools
           /\ step' = UnknownToolResult(st)
  /\ UNCHANGED running
  /\ SessionUnchanged
  /\ UNCHANGED others

\* the name is in the index and _get_client returns None
CallNotConnected ==
  /\ running
  /\ \E name \in ToolUniverse, ok \in BOOLEAN :
       LET s == Lookup(tool_to_service, name)
           c == get_client(clients, services, connects, s, ok)
           st == [ToolCall("object", name, NotInspected)
                    EXCEPT !.connect_tried = IF c.tried THEN {s} ELSE {},
                           !.connect_ok = IF c.ok THEN {s} ELSE {}]
       IN  /\ s # NoService
           /\ c.client = None
           /\ clients' = c.clients
           /\ connects' = c.connects
           /\ step' = NotConnectedResult(st, s)
  /\ UNCHANGED <<PROFILES, profile_ref, enabled_modules, services,
                 tool_to_service, running>>
  /\ UNCHANGED others

\* the name is in the index and there is a client: service.execute runs and
\* returns its text, or raises
CallExecute ==
  /\ running
  /\ \E name \in ToolUniverse, ok \in BOOLEAN,
        raises \in BOOLEAN :
       LET s == Lookup(tool_to_service, name)
           c == get_client(clients, services, connects, s, ok)
           st == [ToolCall("object", name, NotInspected)
                    EXCEPT !.connect_tried = IF c.tried THEN {s} ELSE {},
                           !.connect_ok = IF c.ok THEN {s} ELSE {}]
       IN  /\ s # NoService
           /\ c.client # None
           /\ c.ok => connects[s] < MaxConnects
           /\ clients' = c.clients
           /\ connects' = c.connects
           /\ step' = IF raises THEN ExecErrorResult(st, s) ELSE ExecResult(st, s)
  /\ UNCHANGED <<PROFILES, profile_ref, enabled_modules, services,
                 tool_to_service, running>>
  /\ UNCHANGED others

Next ==
  \/ ReadEOF
  \/ Interrupt
  \/ SkipBlank
  \/ SkipMalformed
  \/ HandleNonObject
  \/ HandleInitialize
  \/ HandleInitialized
  \/ HandleToolsList
  \/ HandlePing
  \/ HandleShutdown
  \/ HandleUnknownMethod
  \/ CallBadParams
  \/ CallLoadModulesBadArgs
  \/ CallLoadModules
  \/ CallUnhashableName
  \/ CallNotLoaded
  \/ CallUnknownTool
  \/ CallNotConnected
  \/ CallExecute

Spec == Init /\ [][Next]_vars

\* the loop fed only load_modules calls and initialize requests
NextLoad ==
  \/ CallLoadModulesRecorded
  \/ CallLoadModulesBadArgs
  \/ HandleInitialize

SpecLoad == Init /\ [][NextLoad]_vars


\* ------------------------------------------------------------------------
\* MCPServer.run, one iteration in steps: read a line, handle it (with the
\* call of execute as a step of its own), write the response
\* ------------------------------------------------------------------------

\* longest input
MaxLines == 3

\* the ids of requests
Ids == {1, 2}

\* lines that are no JSON object
NonMessageKinds == {"blank", "malformed", "nonobject"}

\* JSON objects, by what handle_message does with them: the `initialized`
\* notification, tools/list, a tools/call with params null, a tools/call of
\* the tool "help", a tools/call of load_modules for ["editor"]
MessageKinds == {"initialized", "tools/list", "bad_params", "call", "load"}

Lines ==
  {[kind |-> k, id |-> 0] : k \in NonMessageKinds}
    \cup {[kind |-> k, id |-> i] : k \in MessageKinds, i \in Ids}

\* the session of `--modules core` reading the lines of some input
InitSeq ==
  /\ InitSession(ExplicitModules(<<"core">>), "none")
  /\ stdin \in SeqsUpTo(Lines, MaxLines)
  /\ stdout = <<>>
  /\ pc = "read"
  /\ cur = 0
  /\ call = NoCall

\* readline is called at the top of the loop body only
CanRead(at) == at = "read"

\* line = sys.stdin.readline(), not empty
SeqReadLine ==
  /\ running
  /\ CanRead(pc)
  /\ cur < Len(stdin)
  /\ cur' = cur + 1
  /\ pc' = "line"
  /\ UNCHANGED <<stdin, stdout, step, running, call>>
  /\ SessionUnchanged

\* readline returns "": the loop breaks
SeqReadEOF ==
  /\ running
  /\ CanRead(pc)
  /\ cur = Len(stdin)
  /\ running' = FALSE
  /\ pc' = "stopped"
  /\ UNCHANGED <<stdin, stdout, cur, step, call>>
  /\ SessionUnchanged

\* mutant of AfterSkip: a line that cannot be parsed ends the loop
AfterSkip_stop(kind) == IF kind = "malformed" THEN "stopped" ELSE "read"

\* both `continue` statements lead back to readline
AfterSkip(kind) == "read"

\* the line is blank, or json.loads raises JSONDecodeError
SeqSkipLine ==
  /\ pc = "line"
  /\ stdin[cur].kind \in {"blank", "malformed"}
  /\ step' = [NoStep EXCEPT !.line = stdin[cur].kind]
  /\ pc' = AfterSkip(stdin[cur].kind)
  /\ running' = (AfterSkip(stdin[cur].kind) # "stopped")
  /\ UNCHANGED <<stdin, stdout, cur, call>>
  /\ SessionUnchanged

\* msg_id = message.get("id"): the handlers hand it to _make_response
Request(line, method) == [Message(method) EXCEPT !.id = line.id]

\* handle_message raises: run logs the exception and reads on
SeqHandleRaises ==
  /\ pc = "line"
  /\ \/ /\ stdin[cur].kind = "nonobject"
        /\ step' = Uncaught([NoStep EXCEPT !.line = "message"])
     \/ /\ stdin[cur].kind = "bad_params"
        /\ step' = Uncaught([Request(stdin[cur], "tools/call") EXCEPT !.params = "null"])
  /\ pc' = "read"
  /\ UNCHANGED <<stdin, stdout, cur, running, call>>
  /\ SessionUnchanged

\* handle_message returns None (`initialized`) or the tools/list result
SeqHandleQuery ==
  /\ pc = "line"
  /\ \/ /\ stdin[cur].kind = "initialized"
        /\ step' = Request(stdin[cur], "initialized")
     \/ /\ stdin[cur].kind = "tools/list"
        /\ step' = [Respond(Request(stdin[cur], "tools/list"), "result", "tools")
                      EXCEPT !.tools = get_all_tools(services)]
  /\ pc' = "write"
  /\ UNCHANGED <<stdin, stdout, cur, running, call>>
  /\ SessionUnchanged

\* tools/call of load_modules with modules ["editor"]
SeqHandleLoad ==
  /\ pc = "line"
  /\ stdin[cur].kind = "load"
  /\ LET r == handle_load_modules(enabled_modules, services, tool_to_service,
                                  <<"editor">>)
         st == [Request(stdin[cur], "tools/call") EXCEPT
                  !.params = "object", !.name = "load_modules",
                  !.arguments = "object", !.modules_kind = "list"]
     IN  /\ enabled_modules' = r.enabled
         /\ PROFILES' = AppendToProfile(PROFILES, profile_ref, r.enabled)
         /\ services' = r.services
         /\ tool_to_service' = r.index
         /\ clients' = ClientsAfterLoad(clients, r.rebuilt)
         /\ step' = LoadResult(st, r)
  /\ pc' = "write"
  /\ UNCHANGED <<profile_ref, connects, stdin, stdout, cur, running, call>>

\* tools/call of "help": _get_client, then either the not-connected result
\* or the call of execute, which is in progress until it returns or raises
SeqHandleCall ==
  /\ pc = "line"
  /\ stdin[cur].kind = "call"
  /\ \E ok \in BOOLEAN :
       LET s == Lookup(tool_to_service, "help")
           c == get_client(clients, services, connects, s, ok)
           st == [Request(stdin[cur], "tools/call") EXCEPT
                    !.params = "object", !.name = "help",
                    !.connect_tried = IF c.tried THEN {s} ELSE {},
                    !.connect_ok = IF c.ok THEN {s} ELSE {}]
       IN  /\ clients' = c.clients
           /\ connects' = c.connects
           /\ IF c.client = None
              THEN step' = NotConnectedResult(st, s) /\ pc' = "write"
              ELSE step' = [st EXCEPT !.service = s, !.executed = s] /\ pc' = "execute"
  /\ UNCHANGED <<PROFILES, profile_ref, enabled_modules, services,
                 tool_to_service, stdin, stdout, cur, running, call>>

\* service.execute returns its text or raises
SeqExecuteReturns ==
  /\ pc = "execute"
  /\ \E raises \in BOOLEAN :
       step' = IF raises THEN ExecErrorResult(step, step.service)
               ELSE ExecResult(step, step.service)
  /\ pc' = "write"
  /\ UNCHANGED <<stdin, stdout, cur, running, call>>
  /\ SessionUnchanged

\* mutant of Written: the response goes in front of the earlier ones
Written_first(out, r) == <<r>> \o out

\* sys.stdout.write(response_str + "\n")
Written(out, r) == Append(out, r)

\* `if response is not None:` the response is written; req is the number of
\* the line that the response answers
SeqWrite ==
  /\ pc = "write"
  /\ stdout' = IF step.wrote
               THEN Written(stdout, [id |-> step.id, req |-> cur,
                                     text |-> step.text])
               ELSE stdout
  /\ pc' = "read"
  /\ UNCHANGED <<stdin, cur, step, running, call>>
  /\ SessionUnchanged

NextSeq ==
  \/ SeqReadLine
  \/ SeqReadEOF
  \/ SeqSkipLine
  \/ SeqHandleRaises
  \/ SeqHandleQuery
  \/ SeqHandleLoad
  \/ SeqHandleCall
  \/ SeqExecuteReturns
  \/ SeqWrite

SpecSeq == InitSeq /\ [][NextSeq]_vars

\* ------------------------------------------------------------------------
\* _parse_call_syntax (src/services/agentbridge.py)
\* ------------------------------------------------------------------------

\* A string is the sequence of its characters.  The characters of a call
\* string: the three the parser looks at and one that stands for any other.
CallChars == {"/", ".", ":", "a"}

\* longest call string
MaxCall == 6

CallStrings == SeqsUpTo(CallChars, MaxCall)

\* s[a:b] of a string, with 1-based inclusive positions
Slice(s, a, b) == SubSeq(s, a, b)

\* whether sub occurs in s at position i
OccursAt(s, sub, i) ==
  /\ i >= 1
  /\ i + Len(sub) - 1 <= Len(s)
  /\ \A k \in 1..Len(sub) : s[i + k - 1] = sub[k]

Occurrences(s, sub) == {i \in 1..Len(s) : OccursAt(s, sub, i)}

\* `sub in s`
Contains(s, sub) == Occurrences(s, sub) # {}

\* mutant of Find: the last occurrence instead of the first
Find_last(s, sub) ==
  IF Contains(s, sub)
  THEN CHOOSE i \in Occurrences(s, sub) : \A j \in Occurrences(s, sub) : j <= i
  ELSE 0

\* s.find(sub), 1-based; 0 where Python gives -1
Find(s, sub) ==
  IF Contains(s, sub)
  THEN CHOOSE i \in Occurrences(s, sub) : \A j \in Occurrences(s, sub) : i <= j
  ELSE 0

\* s.rfind(sub), 1-based; 0 where Python gives -1
RFind(s, sub) ==
  IF Contains(s, sub)
  THEN CHOOSE i \in Occurrences(s, sub) : \A j \in Occurrences(s, sub) : j <= i
  ELSE 0

\* s.split(sub, 1) of a string that contains sub: the two parts
SplitOnce(s, sub) ==
  LET i == Find(s, sub)
  IN  <<Slice(s, 1, i - 1), Slice(s, i + Len(sub), Len(s))>>

\* s.startswith("/")
StartsWithSlash(s) == Len(s) >= 1 /\ s[1] = "/"

\* s.split(c) for a one-character separator: the list of parts
RECURSIVE SplitChar(_, _)
SplitChar(s, c) ==
  IF ~Contains(s, <<c>>) THEN <<s>>
  ELSE LET i == Find(s, <<c>>)
       IN  <<Slice(s, 1, i - 1)>> \o SplitChar(Slice(s, i + 1, Len(s)), c)

\* c.join(parts)
RECURSIVE JoinChar(_, _)
JoinChar(parts, c) ==
  IF parts = <<>> THEN <<>>
  ELSE IF Len(parts) = 1 THEN parts[1]
  ELSE parts[1] \o <<c>> \o JoinChar(Tail(parts), c)

\* the text of the error variant: the f-string around the call string
InvalidSyntaxMessage(c) ==
  <<"Invalid call syntax '">> \o c \o <<"'. Use Class::Function for static, Actor.Function for instance, or /Asset/Path::Function for assets.">>

\* mutant of HasSubobject: a segment of two parts already has a subobject
HasSubobject_two(dot_parts) == Len(dot_parts) > 1

\* `if len(dot_parts) > 2`
HasSubobject(dot_parts) == Len(dot_parts) > 2

\* the asset branch: the target is split at the second dot of its last segment
ParseAsset(target, function) ==
  LET path_parts == SplitChar(target, "/")
      last_segment == path_parts[Len(path_parts)]
      dot_parts == SplitChar(last_segment, ".")
  IN  IF HasSubobject(dot_parts)
      THEN LET asset_name == dot_parts[1] \o <<".">> \o dot_parts[2]
               subobject == JoinChar(SubSeq(dot_parts, 3, Len(dot_parts)), ".")
               asset_path == JoinChar(SubSeq(path_parts, 1, Len(path_parts) - 1), "/")
                               \o <<"/">> \o asset_name
           IN  [type |-> "asset", target |-> asset_path, function |-> function,
                subobject |-> subobject]
      ELSE [type |-> "asset", target |-> target, function |-> function]

\* mutant of ComponentSplit: the component is split off at the last dot
ComponentSplit_last(target_path) == RFind(target_path, <<".">>)

\* `first_dot = target_path.find(".")`
ComponentSplit(target_path) == Find(target_path, <<".">>)

\* the actor branch: the function is the text after the last dot
ParseActor(c) ==
  LET last_dot == RFind(c, <<".">>)
      target_path == Slice(c, 1, last_dot - 1)
      function == Slice(c, last_dot + 1, Len(c))
  IN  IF Contains(target_path, <<".">>)
      THEN LET first_dot == ComponentSplit(target_path)
           IN  [type |-> "actor", target |-> Slice(target_path, 1, first_dot - 1),
                function |-> function,
                component |-> Slice(target_path, first_dot + 1, Len(target_path))]
      ELSE [type |-> "actor", target |-> target_path, function |-> function]

\* mutant of HasStaticSeparator: a single colon is taken for the separator
HasStaticSeparator_colon(c) == Contains(c, <<":">>)

\* `if "::" in call`
HasStaticSeparator(c) == Contains(c, <<":", ":">>)

parse_call_syntax(c) ==
  IF HasStaticSeparator(c)
  THEN LET parts == SplitOnce(c, <<":", ":">>)
       IN  IF StartsWithSlash(parts[1])
           THEN ParseAsset(parts[1], parts[2])
           ELSE [type |-> "static", target |-> parts[1], function |-> parts[2]]
  ELSE IF Contains(c, <<".">>)
  THEN ParseActor(c)
  ELSE [type |-> "error", message |-> InvalidSyntaxMessage(c)]

\* the parser applied to the call string
ParseCall ==
  /\ call.fn = "_parse_call_syntax"
  /\ ~call.done
  /\ call' = [call EXCEPT !.done = TRUE, !.result = parse_call_syntax(call.arg)]
  /\ UNCHANGED <<PROFILES, profile_ref, enabled_modules, services,
                 tool_to_service, clients, connects, running, step,
                 stdin, stdout, pc, cur>>

\* a session of the default profile that handles no line
InitQuiet ==
  /\ InitSession(get_profile_modules(PROFILES0, DEFAULT_PROFILE), DEFAULT_PROFILE)
  /\ WholeIterations

InitParse ==
  /\ InitQuiet
  /\ \E c \in CallStrings :
       call = [NoCall EXCEPT !.fn = "_parse_call_syntax", !.arg = c]

NextParse == ParseCall

SpecParse == InitParse /\ [][NextParse]_vars

\* ------------------------------------------------------------------------
\* The value codec, dict branch: _set_property_value and
\* _normalize_property_value (src/services/agentbridge.py)
\* ------------------------------------------------------------------------

\* A Python value is a record [t, v]: an int with its number, or a dict
\* with the function from its keys to their values.
PyInt(n) == [t |-> "int", v |-> n]

PyDict(f) == [t |-> "dict", v |-> f]

\* the keys that the two functions test for, and one they do not know
KeyOrder == <<"x", "y", "z", "pitch", "yaw", "roll", "r", "g", "b", "a", "k">>

KeyUniverse == Range(KeyOrder)

\* the number stored under a key: every key has its own, none of them the
\* 0 or the 1 of a default
NumberAt(k) == 1 + CHOOSE i \in 1..Len(KeyOrder) : KeyOrder[i] = k

\* the dict on the key set K whose values are all numbers
FlatDict(K) == PyDict([k \in K |-> PyInt(NumberAt(k))])

\* deepest nesting of dicts below the top one
MaxDepth == 1

\* key sets of the dicts that are nested under the key "k"
NestedKeySets == {{"x", "y", "z"}, {"pitch"}, {"r", "g", "b"}, {"k"}}

RECURSIVE NestedDicts(_)
NestedDicts(d) ==
  IF d = 0 THEN {}
  ELSE {FlatDict(K) : K \in NestedKeySets}
         \cup {PyDict([k \in {"k"} |-> m]) : m \in NestedDicts(d - 1)}

\* the dict values the codec is applied to
DictValues ==
  {FlatDict(K) : K \in SUBSET KeyUniverse}
    \cup {PyDict([k \in K |-> IF k = "k" THEN m ELSE PyInt(NumberAt(k))]) :
            K \in {J \in SUBSET KeyUniverse : "k" \in J},
            m \in NestedDicts(MaxDepth)}

\* `k in value`
HasKey(value, k) == k \in DOMAIN value.v

\* value.get(k, default) handed to float(): the number, for an int
GetFloat(value, k, default) ==
  IF HasKey(value, k) THEN value.v[k].v ELSE default

\* `'x' in value and 'y' in value and 'z' in value and len(value) == 3`
IsVectorDict(value) ==
  /\ HasKey(value, "x") /\ HasKey(value, "y") /\ HasKey(value, "z")
  /\ Cardinality(DOMAIN value.v) = 3

\* `'pitch' in value and 'yaw' in value and 'roll' in value`
IsRotatorDict(value) ==
  HasKey(value, "pitch") /\ HasKey(value, "yaw") /\ HasKey(value, "roll")

\* `'r' in value and 'g' in value and 'b' in value`
IsColorDict(value) ==
  HasKey(value, "r") /\ HasKey(value, "g") /\ HasKey(value, "b")

\* the other Python values: None, a bool, a float (PyFloat(n) is the float
\* n.0), a str with its characters, a list with its items
PyNone == [t |-> "none", v |-> 0]

PyBool(b) == [t |-> "bool", v |-> b]

PyFloat(n) == [t |-> "float", v |-> n]

PyStr(s) == [t |-> "str", v |-> s]

PyList(q) == [t |-> "list", v |-> q]

\* float(value) returns for a bool, an int or a float; for the strings of the
\* model (none of them a numeral), for None, a dict and a list it raises
IsNumber(value) == value.t \in {"bool", "int", "float"}

\* float(value) of a number
FloatOf(value) ==
  IF value.t = "bool" THEN (IF value.v THEN 1 ELSE 0) ELSE value.v

\* every float(...) of the branch for the keys `keys` returns
FloatsReturn(value, keys) ==
  \A k \in keys : HasKey(value, k) => IsNumber(value.v[k])

\* value.get(k, default) handed to float()
GetFloatOf(value, k, default) ==
  IF HasKey(value, k) THEN FloatOf(value.v[k]) ELSE default

\* the call left by an exception
Raised == [type |-> "raises"]

\* _set_property_value: the PropertyValue that pv is set to
RECURSIVE set_property_value(_)
set_property_value(value) ==
  IF value.t = "none" THEN [type |-> "NONE"]
  ELSE IF value.t = "bool" THEN [type |-> "BOOL", bool_value |-> value.v]
  ELSE IF value.t = "int" THEN [type |-> "INT", int_value |-> value.v]
  ELSE IF value.t = "float" THEN [type |-> "FLOAT", float_value |-> value.v]
  ELSE IF value.t = "str" THEN [type |-> "STRING", string_value |-> value.v]
  ELSE IF value.t = "list"
  THEN LET items == [i \in 1..Len(value.v) |-> set_property_value(value.v[i])]
       IN  IF \E i \in 1..Len(items) : items[i] = Raised THEN Raised
           ELSE [type |-> "ARRAY", array_values |-> items]
  ELSE IF IsVectorDict(value)
  THEN IF ~FloatsReturn(value, {"x", "y", "z"}) THEN Raised
       ELSE [type |-> "VECTOR", x |-> FloatOf(value.v["x"]),
             y |-> FloatOf(value.v["y"]), z |-> FloatOf(value.v["z"])]
  ELSE IF IsRotatorDict(value)
  THEN IF ~FloatsReturn(value, {"pitch", "yaw", "roll"}) THEN Raised
       ELSE [type |-> "ROTATOR", pitch |-> FloatOf(value.v["pitch"]),
             yaw |-> FloatOf(value.v["yaw"]), roll |-> FloatOf(value.v["roll"])]
  ELSE IF IsColorDict(value)
  THEN IF ~FloatsReturn(value, {"r", "g", "b", "a"}) THEN Raised
       ELSE [type |-> "COLOR", r |-> GetFloatOf(value, "r", 0),
             g |-> GetFloatOf(value, "g", 0), b |-> GetFloatOf(value, "b", 0),
             a |-> GetFloatOf(value, "a", 1)]
  ELSE LET fields == [k \in DOMAIN value.v |-> set_property_value(value.v[k])]
       IN  IF \E k \in DOMAIN fields : fields[k] = Raised THEN Raised
           ELSE [type |-> "STRUCT", struct_values |-> fields]

RotationToDict_by_position(pv) ==
  PyDict([k \in {"pitch", "yaw", "roll"} |->
            PyFloat(IF k = "pitch" THEN pv.roll
                    ELSE IF k = "yaw" THEN pv.pitch ELSE pv.yaw)])

\* `{"pitch": r.pitch, "yaw": r.yaw, "roll": r.roll}`
RotationToDict(pv) ==
  PyDict([k \in {"pitch", "yaw", "roll"} |-> PyFloat(pv[k])])

\* _property_value_to_dict of a PropertyValue that _set_property_value made
RECURSIVE property_value_to_dict(_)
property_value_to_dict(pv) ==
  CASE pv.type = "NONE" -> PyNone
    [] pv.type = "BOOL" -> PyBool(pv.bool_value)
    [] pv.type = "INT" -> PyInt(pv.int_value)
    [] pv.type = "FLOAT" -> PyFloat(pv.float_value)
    [] pv.type = "STRING" -> PyStr(pv.string_value)
    [] pv.type = "VECTOR" ->
         PyDict([k \in {"x", "y", "z"} |-> PyFloat(pv[k])])
    [] pv.type = "ROTATOR" -> RotationToDict(pv)
    [] pv.type = "COLOR" ->
         PyDict([k \in {"r", "g", "b", "a"} |-> PyFloat(pv[k])])
    [] pv.type = "STRUCT" ->
         PyDict([k \in DOMAIN pv.struct_values |->
                   property_value_to_dict(pv.struct_values[k])])
    [] pv.type = "ARRAY" ->
         PyList([i \in 1..Len(pv.array_values) |->
                   property_value_to_dict(pv.array_values[i])])

\* _normalize_property_value of a dict: the text it returns, by its form
\* and the numbers in it; a generic dict is returned as json.dumps(value)
normalize_property_value(value) ==
  IF IsColorDict(value)
  THEN [form |-> "(R=,G=,B=,A=)", r |-> GetFloat(value, "r", 0),
        g |-> GetFloat(value, "g", 0), b |-> GetFloat(value, "b", 0),
        a |-> GetFloat(value, "a", 1)]
  ELSE IF HasKey(value, "x") /\ HasKey(value, "y") /\ HasKey(value, "z")
  THEN [form |-> "(X=,Y=,Z=)", x |-> GetFloat(value, "x", 0),
        y |-> GetFloat(value, "y", 0), z |-> GetFloat(value, "z", 0)]
  ELSE IF HasKey(value, "pitch") \/ HasKey(value, "yaw") \/ HasKey(value, "roll")
  THEN [form |-> "(Pitch=,Yaw=,Roll=)", pitch |-> GetFloat(value, "pitch", 0),
        yaw |-> GetFloat(value, "yaw", 0), roll |-> GetFloat(value, "roll", 0)]
  ELSE [form |-> "json", json |-> value]

CodecFunctions == {"_set_property_value", "_normalize_property_value"}

InitCodec ==
  /\ InitQuiet
  /\ \E fn \in CodecFunctions, value \in DictValues :
       call = [NoCall EXCEPT !.fn = fn, !.arg = value]

SetPropertyValue ==
  /\ call.fn = "_set_property_value"
  /\ ~call.done
  /\ call' = [call EXCEPT !.done = TRUE, !.result = set_property_value(call.arg)]
  /\ UNCHANGED <<PROFILES, profile_ref, enabled_modules, services,
                 tool_to_service, clients, connects, running, step,
                 stdin, stdout, pc, cur>>

NormalizePropertyValue ==
  /\ call.fn = "_normalize_property_value"
  /\ ~call.done
  /\ call' = [call EXCEPT !.done = TRUE,
                          !.result = normalize_property_value(call.arg)]
  /\ UNCHANGED <<PROFILES, profile_ref, enabled_modules, services,
                 tool_to_service, clients, connects, running, step,
                 stdin, stdout, pc, cur>>

NextCodec ==
  \/ SetPropertyValue
  \/ NormalizePropertyValue

SpecCodec == InitCodec /\ [][NextCodec]_vars

\* ------------------------------------------------------------------------
\* The value codec on sequences: the list branch of
\* _normalize_property_value with its hint, and of _set_property_value
\* ------------------------------------------------------------------------

UpperLetters ==
  <<"A", "B", "C", "D", "E", "F", "G", "H", "I", "J", "K", "L", "M",
    "N", "O", "P", "Q", "R", "S", "T", "U", "V", "W", "X", "Y", "Z">>

LowerLetters ==
  <<"a", "b", "c", "d", "e", "f", "g", "h", "i", "j", "k", "l", "m",
    "n", "o", "p", "q", "r", "s", "t", "u", "v", "w", "x", "y", "z">>

\* str.lower(), character by character
Lower(s) ==
  [i \in 1..Len(s) |->
     IF s[i] \in Range(UpperLetters)
     THEN LowerLetters[CHOOSE j \in 1..Len(UpperLetters) : UpperLetters[j] = s[i]]
     ELSE s[i]]

\* `'color' in hint_lower`
is_color_hint(property_hint) ==
  Contains(Lower(property_hint), <<"c", "o", "l", "o", "r">>)

\* `'rotation' in hint_lower or 'rotator' in hint_lower`
is_rotation_hint(property_hint) ==
  \/ Contains(Lower(property_hint), <<"r", "o", "t", "a", "t", "i", "o", "n">>)
  \/ Contains(Lower(property_hint), <<"r", "o", "t", "a", "t", "o", "r">>)

\* the property paths handed in as hints: none, BaseColor, color,
\* RelativeRotation, rotator, RotationColor, Location
Hints ==
  { <<>>,
    <<"B", "a", "s", "e", "C", "o", "l", "o", "r">>,
    <<"c", "o", "l", "o", "r">>,
    <<"R", "e", "l", "a", "t", "i", "v", "e", "R", "o", "t", "a", "t", "i", "o", "n">>,
    <<"r", "o", "t", "a", "t", "o", "r">>,
    <<"R", "o", "t", "a", "t", "i", "o", "n", "C", "o", "l", "o", "r">>,
    <<"L", "o", "c", "a", "t", "i", "o", "n">> }

\* longest list
MaxList == 5

\* what a list holds: an int, a float, a str and a list of three numbers
ListItems ==
  {PyInt(2), PyFloat(3), PyStr(<<"s">>), PyList(<<PyInt(4), PyInt(5), PyInt(6)>>)}

ListValues == {PyList(q) : q \in SeqsUpTo(ListItems, MaxList)}

\* `[float(x) for x in value]` returns
ListFloatsReturn(value) == \A i \in 1..Len(value.v) : IsNumber(value.v[i])

\* _normalize_property_value of a list or tuple: the text it returns, by its
\* form and the numbers in it
normalize_list(value, property_hint) ==
  IF Len(value.v) = 3
  THEN IF ~ListFloatsReturn(value) THEN Raised
       ELSE LET v == [i \in 1..3 |-> FloatOf(value.v[i])]
            IN  IF is_color_hint(property_hint)
                THEN [form |-> "(R=,G=,B=,A=)", r |-> v[1], g |-> v[2],
                      b |-> v[3], a |-> 1]
                ELSE IF is_rotation_hint(property_hint)
                THEN [form |-> "(Pitch=,Yaw=,Roll=)", pitch |-> v[1],
                      yaw |-> v[2], roll |-> v[3]]
                ELSE [form |-> "(X=,Y=,Z=)", x |-> v[1], y |-> v[2], z |-> v[3]]
  ELSE IF Len(value.v) = 4
  THEN IF ~ListFloatsReturn(value) THEN Raised
       ELSE LET v == [i \in 1..4 |-> FloatOf(value.v[i])]
            IN  [form |-> "(R=,G=,B=,A=)", r |-> v[1], g |-> v[2],
                 b |-> v[3], a |-> v[4]]
  ELSE [form |-> "json", json |-> value]

InitList ==
  /\ InitQuiet
  /\ \E fn \in CodecFunctions, value \in ListValues, property_hint \in Hints :
       call = [NoCall EXCEPT !.fn = fn,
                 !.arg = [value |-> value,
                          property_hint |-> IF fn = "_set_property_value"
                                            THEN <<>> ELSE property_hint]]

NormalizeList ==
  /\ call.fn = "_normalize_property_value"
  /\ ~call.done
  /\ call' = [call EXCEPT !.done = TRUE,
                !.result = normalize_list(call.arg.value, call.arg.property_hint)]
  /\ UNCHANGED <<PROFILES, profile_ref, enabled_modules, services,
                 tool_to_service, clients, connects, running, step,
                 stdin, stdout, pc, cur>>

SetList ==
  /\ call.fn = "_set_property_value"
  /\ ~call.done
  /\ call' = [call EXCEPT !.done = TRUE,
                          !.result = set_property_value(call.arg.value)]
  /\ UNCHANGED <<PROFILES, profile_ref, enabled_modules, services,
                 tool_to_service, clients, connects, running, step,
                 stdin, stdout, pc, cur>>

NextList ==
  \/ NormalizeList
  \/ SetList

SpecList == InitList /\ [][NextList]_vars

\* ------------------------------------------------------------------------
\* The round trip _set_property_value, then _property_value_to_dict
\* ------------------------------------------------------------------------

\* the values that are not built of others
Atoms == {PyNone, PyBool(TRUE), PyBool(FALSE), PyInt(2), PyFloat(3), PyStr(<<"s">>)}

\* a list of four numbers
ColorArray == PyList(<<PyInt(1), PyInt(0), PyFloat(0), PyFloat(2)>>)

Leaves == Atoms \cup {FlatDict(K) : K \in SUBSET KeyUniverse} \cup {ColorArray}

\* the values nested to the depth d: a struct around one, lists around one
RECURSIVE RoundValues(_)
RoundValues(d) ==
  IF d = 0 THEN Leaves
  ELSE Leaves
         \cup {PyDict([k \in {"k"} |-> m]) : m \in RoundValues(d - 1)}
         \cup {PyList(<<m>>) : m \in RoundValues(d - 1)}
         \cup {PyList(<<PyInt(2), m>>) : m \in RoundValues(d - 1)}

InitRound ==
  /\ InitQuiet
  /\ \E value \in RoundValues(MaxDepth) :
       call = [NoCall EXCEPT !.fn = "_set_property_value", !.arg = value]

\* encode: the PropertyValue is kept for the decoding
RoundEncode ==
  /\ call.fn = "_set_property_value"
  /\ ~call.done
  /\ LET pv == set_property_value(call.arg)
     IN  call' = [call EXCEPT !.fn = IF pv = Raised THEN @
                                     ELSE "_property_value_to_dict",
                              !.done = (pv = Raised),
                              !.result = [pv |-> pv]]
  /\ UNCHANGED <<PROFILES, profile_ref, enabled_modules, services,
                 tool_to_service, clients, connects, running, step,
                 stdin, stdout, pc, cur>>

\* decode of what encode made
RoundDecode ==
  /\ call.fn = "_property_value_to_dict"
  /\ ~call.done
  /\ call' = [call EXCEPT !.done = TRUE,
                !.result = [pv |-> call.result.pv,
                            value |-> property_value_to_dict(call.result.pv)]]
  /\ UNCHANGED <<PROFILES, profile_ref, enabled_modules, services,
                 tool_to_service, clients, connects, running, step,
                 stdin, stdout, pc, cur>>

NextRound ==
  \/ RoundEncode
  \/ RoundDecode

SpecRound == InitRound /\ [][NextRound]_vars

\* ------------------------------------------------------------------------
\* The value codec on strings: the hex color branch of
\* _normalize_property_value
\* ------------------------------------------------------------------------

HexAlphabet ==
  <<"0", "1", "2", "3", "4", "5", "6", "7", "8", "9", "a", "b", "c", "d", "e", "f">>

IsHexDigit(c) == Lower(<<c>>)[1] \in Range(HexAlphabet)

DigitValue(c) ==
  (CHOOSE i \in 1..Len(HexAlphabet) : HexAlphabet[i] = Lower(<<c>>)[1]) - 1

\* str.strip() of the blanks at both ends
RECURSIVE Strip(_)
Strip(s) ==
  IF s = <<>> THEN s
  ELSE IF Head(s) = " " THEN Strip(Tail(s))
  ELSE IF s[Len(s)] = " " THEN Strip(SubSeq(s, 1, Len(s) - 1))
  ELSE s

\* the number that a run of hex digits stands for
RECURSIVE DigitsValue(_)
DigitsValue(digits) ==
  IF digits = <<>> THEN 0
  ELSE 16 * DigitsValue(SubSeq(digits, 1, Len(digits) - 1))
         + DigitValue(digits[Len(digits)])

\* int(s, 16) of a slice of at most two characters: blanks around it are
\* dropped, a sign is taken, and what is left must be hex digits (a prefix
\* 0x or an underscore needs three characters to be accepted)
IntBase16(s) ==
  LET t == Strip(s)
      signed == t # <<>> /\ t[1] \in {"+", "-"}
      digits == IF signed THEN Tail(t) ELSE t
  IN  IF digits = <<>> \/ \E i \in 1..Len(digits) : ~IsHexDigit(digits[i])
      THEN [ok |-> FALSE, n |-> 0]
      ELSE [ok |-> TRUE,
            n |-> IF signed /\ t[1] = "-" THEN 0 - DigitsValue(digits)
                  ELSE DigitsValue(digits)]

\* `len(value) in (7, 9)`
IsHexLength(n) == n \in {7, 9}

\* _normalize_property_value of a str.  A color is given by its channels in
\* 255ths, as they are computed (n / 255.0; the 1.0 of a missing alpha is
\* 255 of them); any other string is returned as it is.
normalize_string(value) ==
  LET s == value.v
      hex_str == SubSeq(s, 2, Len(s))
      r == IntBase16(SubSeq(hex_str, 1, 2))
      g == IntBase16(SubSeq(hex_str, 3, 4))
      b == IntBase16(SubSeq(hex_str, 5, 6))
      a == IF Len(hex_str) = 8 THEN IntBase16(SubSeq(hex_str, 7, 8))
           ELSE [ok |-> TRUE, n |-> 255]
  IN  IF /\ s # <<>> /\ s[1] = "#"
         /\ IsHexLength(Len(s))
         /\ r.ok /\ g.ok /\ b.ok /\ a.ok
      THEN [form |-> "(R=,G=,B=,A=)", r |-> r.n, g |-> g.n, b |-> b.n, a |-> a.n]
      ELSE [form |-> "str", text |-> s]

\* the two-character pieces of the strings: 00, FF, 80, b3, +F, -F, "F ", GG
BytePairs ==
  {<<"0", "0">>, <<"F", "F">>, <<"8", "0">>, <<"b", "3">>,
   <<"+", "F">>, <<"-", "F">>, <<"F", " ">>, <<"G", "G">>}

\* most pieces in a string
MaxBytes == 4

RECURSIVE Flatten(_)
Flatten(q) == IF q = <<>> THEN <<>> ELSE Head(q) \o Flatten(Tail(q))

\* the strings: pieces in a row, with or without the "#" before them and
\* with or without one more digit after them
HexStrings ==
  {prefix \o Flatten(q) \o suffix :
     prefix \in {<<>>, <<"#">>},
     q \in SeqsUpTo(BytePairs, MaxBytes),
     suffix \in {<<>>, <<"1">>}}

InitString ==
  /\ InitQuiet
  /\ \E s \in HexStrings :
       call = [NoCall EXCEPT !.fn = "_normalize_property_value", !.arg = PyStr(s)]

NormalizeString ==
  /\ call.fn = "_normalize_property_value"
  /\ ~call.done
  /\ call' = [call EXCEPT !.done = TRUE, !.result = normalize_string(call.arg)]
  /\ UNCHANGED <<PROFILES, profile_ref, enabled_modules, services,
                 tool_to_service, clients, connects, running, step,
                 stdin, stdout, pc, cur>>

NextString == NormalizeString

SpecString == InitString /\ [][NextString]_vars

\* ------------------------------------------------------------------------
\* The path normalizers: _normalize_asset_path and
\* _normalize_blueprint_class (src/services/agentbridge.py)
\* ------------------------------------------------------------------------

\* s.startswith(pre)
StartsWith(s, pre) == OccursAt(s, pre, 1)

\* s.endswith(suf)
EndsWith(s, suf) == OccursAt(s, suf, Len(s) - Len(suf) + 1)

HasObjectName_whole_suffix(path, final_part) ==
  EndsWith(path, final_part \o <<".">> \o final_part)

\* `"." in final_part`
HasObjectName(path, final_part) == Contains(final_part, <<".">>)

\* _normalize_asset_path
normalize_asset_path(path) ==
  IF path = <<>> THEN path
  ELSE IF ~StartsWith(path, <<"/">>) THEN path
  ELSE LET last_slash == RFind(path, <<"/">>)
           final_part == Slice(path, last_slash + 1, Len(path))
       IN  IF last_slash = 0 THEN path
           ELSE IF HasObjectName(path, final_part) THEN path
           ELSE path \o <<".">> \o final_part

is_blueprint_path_any_slash(class_name) == Contains(class_name, <<"/">>)

\* `"/Game/" in class_name or "/Script/" in class_name or
\*  class_name.startswith("/") and "." in class_name`
is_blueprint_path(class_name) ==
  \/ Contains(class_name, <<"/", "G", "a", "m", "e", "/">>)
  \/ Contains(class_name, <<"/", "S", "c", "r", "i", "p", "t", "/">>)
  \/ (StartsWith(class_name, <<"/">>) /\ Contains(class_name, <<".">>))

\* `class_name.startswith("BP_") and "/" not in class_name`
is_short_bp_name(class_name) ==
  /\ StartsWith(class_name, <<"B", "P", "_">>)
  /\ ~Contains(class_name, <<"/">>)

\* _normalize_blueprint_class
normalize_blueprint_class(class_name) ==
  IF class_name = <<>> THEN class_name
  ELSE IF EndsWith(class_name, <<"_", "C">>) THEN class_name
  ELSE IF is_blueprint_path(class_name) THEN class_name \o <<"_", "C">>
  ELSE IF is_short_bp_name(class_name) THEN class_name \o <<"_", "C">>
  ELSE class_name

\* the pieces the paths and names are made of
PathPieces ==
  { <<"/">>, <<".">>, <<"_", "C">>, <<"B", "P", "_">>, <<"a">>,
    <<"/", "G", "a", "m", "e", "/">>,
    <<"/", "S", "c", "r", "i", "p", "t", "/">> }

\* most pieces in a path
MaxPieces == 4

PathStrings == {Flatten(q) : q \in SeqsUpTo(PathPieces, MaxPieces)}

PathFunctions == {"_normalize_asset_path", "_normalize_blueprint_class"}

\* the function named fn
ApplyPath(fn, x) ==
  IF fn = "_normalize_asset_path" THEN normalize_asset_path(x)
  ELSE normalize_blueprint_class(x)

InitPath ==
  /\ InitQuiet
  /\ \E fn \in PathFunctions, x \in PathStrings :
       call = [NoCall EXCEPT !.fn = fn, !.arg = x]

\* the function applied to the argument
NormalizeOnce ==
  /\ call.fn \in PathFunctions
  /\ ~call.done
  /\ call.result = <<>>
  /\ call' = [call EXCEPT !.result = <<ApplyPath(call.fn, call.arg)>>]
  /\ UNCHANGED <<PROFILES, profile_ref, enabled_modules, services,
                 tool_to_service, clients, connects, running, step,
                 stdin, stdout, pc, cur>>

\* the function applied to what it returned
NormalizeAgain ==
  /\ call.fn \in PathFunctions
  /\ ~call.done
  /\ Len(call.result) = 1
  /\ call' = [call EXCEPT !.done = TRUE,
                !.result = Append(@, ApplyPath(call.fn, call.result[1]))]
  /\ UNCHANGED <<PROFILES, profile_ref, enabled_modules, services,
                 tool_to_service, clients, connects, running, step,
                 stdin, stdout, pc, cur>>

NextPath ==
  \/ NormalizeOnce
  \/ NormalizeAgain

SpecPath == InitPath /\ [][NextPath]_vars

\* ------------------------------------------------------------------------
\* The tools of the agentbridge service: _execute_impl for call_function,
\* get_property and set_property (src/services/agentbridge.py), with
\* safe_call (src/services/base.py)
\* ------------------------------------------------------------------------

\* what AgentBridgeClient.__init__ sets on the client
AgentBridgeClientAttributes == {"channel", "stub"}

\* a backend call returns its response or fails
Outcomes == {"returns", "fails"}

\* safe_call: the response, or the dict with the key "error"
safe_call(outcome, attempt) ==
  IF outcome = "returns" THEN [returned |-> attempt]
  ELSE [error |-> attempt]

\* `isinstance(result, dict) and "error" in result`
IsErrorDict(result) == "error" \in DOMAIN result

\* parsed.get(k, "")
GetOrEmpty(parsed, k) == IF k \in DOMAIN parsed THEN parsed[k] ELSE <<>>

\* what a tool call did: the backend calls it issued, in order, whether an
\* exception left _execute_impl, and the dict it returned
Did(invocations, raised, returned) ==
  [invocations |-> invocations, raised |-> raised, returned |-> returned]

\* _execute_impl for tool_name == "call_function"
call_function(c, outcome) ==
  LET parsed == parse_call_syntax(c)
  IN  IF parsed.type = "error"
      THEN Did(<<>>, FALSE, [error |-> parsed.message])
      ELSE IF parsed.type = "static"
      THEN LET result == safe_call(outcome, 1)
           IN  Did(<<[style |-> "call_static_function",
                      class_name |-> parsed.target,
                      function_name |-> parsed.function]>>,
                   FALSE,
                   IF IsErrorDict(result) THEN result
                   ELSE [success |-> TRUE, call_type |-> "static",
                         target |-> parsed.target])
      ELSE IF parsed.type = "asset"
      THEN LET result == safe_call(outcome, 1)
           IN  Did(<<[style |-> "call_asset_function",
                      asset_path |-> parsed.target,
                      function_name |-> parsed.function,
                      subobject_path |-> GetOrEmpty(parsed, "subobject")]>>,
                   FALSE,
                   IF IsErrorDict(result) THEN result
                   ELSE [success |-> TRUE, call_type |-> "asset",
                         target |-> parsed.target])
      ELSE \* "actor": client.host and client.port are read first
           IF ~({"host", "port"} \subseteq AgentBridgeClientAttributes)
           THEN Did(<<>>, TRUE, <<>>)
           ELSE LET result == safe_call(outcome, 1)
                IN  Did(<<[style |-> "tempo.call_function",
                           actor |-> parsed.target,
                           function |-> parsed.function,
                           component |-> GetOrEmpty(parsed, "component")]>>,
                        FALSE,
                        IF IsErrorDict(result) THEN result
                        ELSE [success |-> TRUE, call_type |-> "actor",
                              target |-> parsed.target,
                              function |-> parsed.function])

InitCallFunction ==
  /\ InitQuiet
  /\ \E c \in CallStrings :
       call = [NoCall EXCEPT !.fn = "call_function", !.arg = c]

\* the tool call_function on the call string, the backend call (if one is
\* issued) returning or failing
ExecuteCallFunction ==
  /\ call.fn = "call_function"
  /\ ~call.done
  /\ \E outcome \in Outcomes :
       call' = [call EXCEPT !.done = TRUE,
                            !.result = call_function(call.arg, outcome)]
  /\ UNCHANGED <<PROFILES, profile_ref, enabled_modules, services,
                 tool_to_service, clients, connects, running, step,
                 stdin, stdout, pc, cur>>

NextCallFunction == ExecuteCallFunction

SpecCallFunction == InitCallFunction /\ [][NextCallFunction]_vars

\* the property paths: one that starts with an instance name and one that
\* starts with a component class name, for which the error gets a hint
PropertyPaths == {"RelativeLocation", "PointLightComponent.Intensity"}

\* _enhance_property_error: the error dict, with hints where the path starts
\* with a class name
enhance_property_error(error_dict, property_path) ==
  IF property_path = "PointLightComponent.Intensity"
  THEN [error |-> error_dict.error, hints |-> TRUE]
  ELSE error_dict

\* what the tool returns when a backend call has returned
PropertySuccess(tool_name, property_path) ==
  IF tool_name = "get_property"
  THEN [path |-> property_path, value |-> "value", type |-> "type_name"]
  ELSE [success |-> TRUE]

\* client.get_property or client.set_property called with the id
PropertyCall(tool_name, actor_id, property_path) ==
  [style |-> "client." \o tool_name, actor_id |-> actor_id, path |-> property_path]

TriesOriginal_always(actor_id, original) == TRUE

\* `if actor_id != args["actor_id"]`
TriesOriginal(actor_id, original) == actor_id # original

\* _execute_impl for tool_name == "get_property" and "set_property", the
\* first and the second backend call having the outcomes first and second
property_tool(tool_name, original, property_path, first, second) ==
  LET actor_id == normalize_asset_path(original)
      result == safe_call(first, 1)
      fallback == safe_call(second, 2)
  IN  IF IsErrorDict(result)
      THEN IF TriesOriginal(actor_id, original)
           THEN Did(<<PropertyCall(tool_name, actor_id, property_path),
                      PropertyCall(tool_name, original, property_path)>>,
                    FALSE,
                    IF ~IsErrorDict(fallback)
                    THEN PropertySuccess(tool_name, property_path)
                    ELSE enhance_property_error(fallback, property_path))
           ELSE Did(<<PropertyCall(tool_name, actor_id, property_path)>>,
                    FALSE, enhance_property_error(result, property_path))
      ELSE Did(<<PropertyCall(tool_name, actor_id, property_path)>>,
               FALSE, PropertySuccess(tool_name, property_path))

PropertyTools == {"get_property", "set_property"}

InitProperty ==
  /\ InitQuiet
  /\ \E tool_name \in PropertyTools, actor_id \in PathStrings,
        property_path \in PropertyPaths :
       call = [NoCall EXCEPT !.fn = tool_name,
                 !.arg = [actor_id |-> actor_id, path |-> property_path]]

\* the tool on its arguments; `backend` keeps the outcomes that the backend
\* calls have or would have had
ExecuteProperty ==
  /\ call.fn \in PropertyTools
  /\ ~call.done
  /\ \E first \in Outcomes, second \in Outcomes :
       call' = [call EXCEPT
                  !.done = TRUE,
                  !.result = [did |-> property_tool(call.fn, call.arg.actor_id,
                                                    call.arg.path, first, second),
                              backend |-> <<first, second>>]]
  /\ UNCHANGED <<PROFILES, profile_ref, enabled_modules, services,
                 tool_to_service, clients, connects, running, step,
                 stdin, stdout, pc, cur>>

NextProperty == ExecuteProperty

SpecProperty == InitProperty /\ [][NextProperty]_vars

\* ------------------------------------------------------------------------
\* The tools of the services tempo_time, tempo_core_editor and tempo_core:
\* their _execute_impl (src/services/tempo_time.py, tempo_core_editor.py,
\* tempo_core.py)
\* ------------------------------------------------------------------------

\* the tools that call the backend and return {"success": True, "action": ...}:
\* the client method each calls and the action it reports
ActionTools ==
  [tempo_play |-> [method |-> "play", action |-> "play"],
   tempo_pause |-> [method |-> "pause", action |-> "pause"],
   tempo_step |-> [method |-> "step", action |-> "step"],
   tempo_advance_steps |-> [method |-> "advance_steps", action |-> "advance_steps"],
   tempo_set_time_mode |-> [method |-> "set_time_mode", action |-> "set_time_mode"],
   tempo_set_sim_rate |-> [method |-> "set_sim_steps_per_second", action |-> "set_sim_rate"],
   play_in_editor |-> [method |-> "play_in_editor", action |-> "play_in_editor"],
   simulate |-> [method |-> "simulate", action |-> "simulate"],
   stop |-> [method |-> "stop", action |-> "stop"],
   save_level |-> [method |-> "save_level", action |-> "save_level"],
   open_level |-> [method |-> "open_level", action |-> "open_level"],
   new_level |-> [method |-> "new_level", action |-> "new_level"],
   tempo_load_level |-> [method |-> "load_level", action |-> "load_level"],
   tempo_finish_loading_level |->
     [method |-> "finish_loading_level", action |-> "finish_loading_level"],
   tempo_set_viewport_render |->
     [method |-> "set_main_viewport_render_enabled", action |-> "set_viewport_render"],
   tempo_set_control_mode |->
     [method |-> "set_control_mode", action |-> "set_control_mode"]]

\* the names handed to these services: their tools, get_current_level and a
\* name none of them knows
SimulationTools == DOMAIN ActionTools \cup {"get_current_level", "other"}

\* `safe_call(client.play)` and `return {"success": True, "action": "play"}`:
\* what safe_call returned is not looked at
ActionReturn(tool_name, result) ==
  [success |-> TRUE, action |-> ActionTools[tool_name].action]

\* _execute_impl of the three services
simulation_tool(tool_name, outcome) ==
  LET result == safe_call(outcome, 1)
  IN  IF tool_name \in DOMAIN ActionTools
      THEN Did(<<[style |-> "client." \o ActionTools[tool_name].method]>>,
               FALSE, ActionReturn(tool_name, result))
      ELSE IF tool_name = "get_current_level"
      THEN Did(<<[style |-> "client.get_current_level"]>>, FALSE,
               IF IsErrorDict(result) THEN result ELSE [level |-> "level"])
      ELSE Did(<<>>, FALSE, [error |-> "Unknown tool"])

InitSimulation ==
  /\ InitQuiet
  /\ \E tool_name \in SimulationTools :
       call = [NoCall EXCEPT !.fn = tool_name]

ExecuteSimulation ==
  /\ call.fn \in SimulationTools
  /\ ~call.done
  /\ \E first \in Outcomes, second \in Outcomes :
       call' = [call EXCEPT
                  !.done = TRUE,
                  !.result = [did |-> simulation_tool(call.fn, first),
                              backend |-> <<first, second>>]]
  /\ UNCHANGED <<PROFILES, profile_ref, enabled_modules, services,
                 tool_to_service, clients, connects, running, step,
                 stdin, stdout, pc, cur>>

\* the tools of the services, those of agentbridge that fall back included
InitService == InitProperty \/ InitSimulation

NextService ==
  \/ ExecuteProperty
  \/ ExecuteSimulation

SpecService == InitService /\ [][NextService]_vars

\* ------------------------------------------------------------------------
\* Properties
\* ------------------------------------------------------------------------

\* the step is a handled tools/call
IsToolsCall(st) == st.line = "message" /\ st.method = "tools/call"

\* C1: every tools/call that the loop reads as a well-formed JSON line, with
\* any name and any params/arguments/modules value, gets exactly one
\* response written before the next line is read.
C1_EveryToolsCallAnswered ==
  IsToolsCall(step) => step.wrote

\* C2 (as stated): when execute raises, the response is an error-flagged
\* result carrying the exception message, the active modules, the index and
\* the cached clients are as before the call, and the loop goes on.
C2_ExecRaiseLeavesSessionUnchanged ==
  [][step'.exec_raised =>
       /\ step'.wrote /\ step'.envelope = "result" /\ step'.isError
       /\ step'.detail = ExcMessage
       /\ enabled_modules' = enabled_modules
       /\ tool_to_service' = tool_to_service
       /\ clients' = clients
       /\ running']_vars

\* C2 (amended): when execute raises, the response is an error-flagged
\* result carrying the exception message, the active modules and the index
\* are as before the call, every client cached before the call is still
\* cached, the only client that can be new is the one this call connected
\* for the tool's service, and the loop goes on.
C2_ExecRaiseKeepsSessionButNewClient ==
  [][step'.exec_raised =>
       /\ step'.wrote /\ step'.envelope = "result" /\ step'.isError
       /\ step'.detail = ExcMessage
       /\ enabled_modules' = enabled_modules
       /\ tool_to_service' = tool_to_service
       /\ \A s \in ServiceNames :
            \/ clients'[s] = clients[s]
            \/ /\ clients[s] = None
               /\ s = step'.service
               /\ step'.connect_ok = {s}
       /\ running']_vars

\* C2 witness: execute raised in a call that had to connect first
C2_Witness ==
  /\ step.exec_raised
  /\ step.connect_ok = {step.service}
  /\ clients[step.service] # None

\* C3: the "is not loaded" error for tool T names a catalog module M whose
\* tool list has T and which is not active.
C3_NotLoadedNamesInactiveModule ==
  step.text = "not_loaded" =>
    /\ step.module \in ModuleNames
    /\ step.name \in Range(MODULES[step.module])
    /\ step.module \notin Range(enabled_modules)

\* C4: between two handled messages the index is exactly consistent with
\* the active modules: tools/list names a tool (other than load_modules,
\* named once) iff the index resolves it, every index entry points to a
\* loaded service and to a tool of an active module, and the index is the
\* one built from the active modules.
C4_IndexConsistentWithActiveModules ==
  LET listed == get_all_tools(services)
  IN  /\ Range(listed) \ {"load_modules"} = Indexed(tool_to_service)
      /\ Cardinality({i \in 1..Len(listed) : listed[i] = "load_modules"}) = 1
      /\ \A t \in Indexed(tool_to_service) :
           /\ tool_to_service[t] \in Keys(services)
           /\ t \in Range(services[tool_to_service[t]])
           /\ t \in get_enabled_tools(enabled_modules)
      /\ tool_to_service = BuildIndex(get_filtered_services(enabled_modules))

\* C5: no handled message removes a module from the active modules.
C5_ActiveModulesOnlyGrow ==
  [][Range(enabled_modules) \subseteq Range(enabled_modules')]_vars

\* C5 witness: a load_modules call has added a module to a session that
\* already had some
C5_Witness ==
  /\ step.text = "load_result"
  /\ step.loaded_modules # <<>>
  /\ Len(enabled_modules) > Len(step.loaded_modules)


\* the step is a handled load_modules call
IsLoadCall(st) == IsToolsCall(st) /\ st.name = "load_modules"

\* C6: load_modules(L) called twice in a row for a list L of names: the
\* second call returns empty loaded_modules and new_tools and the totals of
\* the first, and changes neither the active modules, the index nor the
\* cached clients.
C6_LoadModulesIdempotent ==
  [][step'.repeat =>
       /\ step'.text = "load_result"
       /\ step'.loaded_modules = <<>>
       /\ step'.new_tools = <<>>
       /\ step'.total_modules = step.total_modules
       /\ step'.total_tools = step.total_tools
       /\ enabled_modules' = enabled_modules
       /\ services' = services
       /\ tool_to_service' = tool_to_service
       /\ clients' = clients]_vars

\* C6 witness: the second of two calls for the same list, which names a
\* catalog module, in a session that holds a client
C6_Witness ==
  /\ step.repeat
  /\ step.text = "load_result"
  /\ Range(step.modules) \cap ModuleNames # {}
  /\ \E s \in ServiceNames : clients[s] # None

\* a requested name qualifies when it is in the catalog and not active
Qualifies(m, enabled) == m \in ModuleNames /\ m \notin Range(enabled)

\* C7: for any list of requested names load_modules returns a result that
\* is not error-flagged; a name is activated only if it is in the catalog
\* and not active at the moment it is processed; the other names have no
\* effect; when no name qualifies the active modules and the index are
\* unchanged.
C7_LoadModulesSkipsUnqualified ==
  [][(IsLoadCall(step') /\ step'.modules_kind = "list"
        /\ Unhashable \notin Range(step'.modules)) =>
       LET loaded == step'.loaded_modules
       IN  /\ step'.wrote /\ step'.envelope = "result" /\ ~step'.isError
           /\ step'.text = "load_result"
           /\ \A i \in 1..Len(loaded) :
                /\ loaded[i] \in Range(step'.modules)
                /\ Qualifies(loaded[i], enabled_modules \o SubSeq(loaded, 1, i - 1))
           /\ enabled_modules' = enabled_modules \o loaded
           /\ (\A m \in Range(step'.modules) : ~Qualifies(m, enabled_modules))
                => /\ enabled_modules' = enabled_modules
                   /\ tool_to_service' = tool_to_service]_vars

C8_Inv ==
  /\ step.line = "none" =>
       \A s \in ServiceNames : connects[s] = 0 /\ clients[s] = None
  /\ \A s \in ServiceNames : connects[s] <= 1

C8_Act ==
  /\ \A s \in ServiceNames :
       /\ connects'[s] # connects[s] =>
            /\ step'.method \in {"tools/call", "initialize"}
            /\ s \in step'.connect_ok
            /\ s \in Keys(services)
            /\ clients[s] = None
       /\ clients[s] # None =>
            /\ clients'[s] = clients[s]
            /\ s \notin step'.connect_tried
  /\ IsToolsCall(step') =>
       step'.connect_tried \subseteq {Lookup(tool_to_service, step'.name)}
  /\ step'.executed # "" => clients'[step'.executed] # None

\* C8: constructing the session connects nothing; connect is invoked only by
\* a tools/call for a tool of that service or by initialize, and only while
\* the service has no cached client; a cached client is kept and reused, so
\* connect succeeds at most once per service.
C8_ClientsLazyAndCached == []C8_Inv /\ [][C8_Act]_vars

\* C8 witness: a tool ran on the client an earlier message had cached
C8_Witness ==
  /\ step.executed # ""
  /\ step.connect_tried = {}
  /\ connects[step.executed] = 1

\* C9: a load_modules call leaves every cached client as it was and invokes
\* no connect.
C9_LoadModulesLeavesClients ==
  [][IsLoadCall(step') =>
       /\ clients' = clients
       /\ connects' = connects
       /\ step'.connect_tried = {}]_vars

\* C9 witness: load_modules has activated a module while a client was
\* cached, and a loaded service is still without client
C9_Witness ==
  /\ step.text = "load_result"
  /\ step.loaded_modules # <<>>
  /\ \E s \in Keys(services) : clients[s] # None
  /\ \E s \in Keys(services) : clients[s] = None

C10_Inv ==
  /\ step.text = "not_connected" =>
       /\ step.wrote /\ step.envelope = "result" /\ step.isError
       /\ ~step.uncaught
       /\ step.service = Lookup(tool_to_service, step.name)
       /\ step.service \in Keys(services)
       /\ step.host = Host /\ step.port = Port
       /\ step.executed = "" /\ ~step.exec_raised
       /\ clients[step.service] = None
  /\ (IsToolsCall(step) /\ step.connect_tried # {} /\ step.connect_ok = {}) =>
       step.text = "not_connected"

C10_Act ==
  \A s \in ServiceNames :
    (clients[s] = None /\ IsToolsCall(step') /\ step'.service = s)
      => s \in step'.connect_tried

\* C10: when connect raises for the service of the called tool, tools/call
\* answers with an error-flagged result naming the service, the host and the
\* port, execute is not invoked and no client is cached, so a later call for
\* that service tries connect again.
C10_ConnectFailureReported == []C10_Inv /\ [][C10_Act]_vars

\* C10 witness: connect raised in a tools/call
C10_Witness ==
  /\ step.text = "not_connected"
  /\ step.connect_tried = {step.service}
  /\ step.connect_ok = {}


\* C13: a tools/call whose name is a string other than load_modules that
\* is neither in the index nor in any catalog module gets a result envelope
\* with the error flag and the "Unknown tool" text; no connect and no
\* execute is invoked and the session is as before.
C13_UnknownToolReported ==
  [][(/\ IsToolsCall(step')
      /\ step'.params \in {"object", "missing"}
      /\ step'.name \notin {"load_modules", Unhashable}
      /\ Lookup(tool_to_service, step'.name) = NoService
      /\ step'.name \notin CatalogTools) =>
       /\ step'.wrote /\ step'.envelope = "result" /\ step'.isError
       /\ step'.text = "unknown_tool"
       /\ step'.connect_tried = {} /\ step'.executed = ""
       /\ UNCHANGED <<PROFILES, enabled_modules, services, tool_to_service,
                      clients, connects, running>>]_vars

\* C13 witness: the unknown-tool answer in a session that holds a client
C13_Witness ==
  /\ step.text = "unknown_tool"
  /\ step.name = NoSuchTool
  /\ \E s \in ServiceNames : clients[s] # None

\* C14: no sequence of session operations changes the module list of a
\* profile: a session constructed now from any profile name gets the
\* modules the profile had at process start.
C14_ProfilesImmutable ==
  \A p \in ProfileNames \cup {UnknownProfile} :
    get_profile_modules(PROFILES, p) = get_profile_modules(PROFILES0, p)

\* C15: initialize tries connect for exactly the loaded services without a
\* cached client; afterwards each service whose connect returned has a
\* cached client and the others are as before; a connect that raises stops
\* neither the other attempts nor the initialize result.
C15_InitializePrewarms ==
  [][step'.method = "initialize" =>
       /\ step'.connect_tried = {s \in Keys(services) : clients[s] = None}
       /\ step'.connect_ok \subseteq step'.connect_tried
       /\ \A s \in step'.connect_ok : clients'[s] # None
       /\ \A s \in ServiceNames \ step'.connect_ok : clients'[s] = clients[s]
       /\ step'.wrote /\ step'.envelope = "result" /\ ~step'.isError
       /\ step'.text = "initialize"]_vars

\* C15 witness: an initialize in which one connect raised and a later one
\* returned
C15_Witness ==
  /\ step.method = "initialize"
  /\ \E s \in step.connect_tried \ step.connect_ok, t \in step.connect_ok :
       /\ clients[s] = None
       /\ clients[t] # None
       /\ \E i, j \in 1..Len(RegistryOrder) :
            i < j /\ RegistryOrder[i] = s /\ RegistryOrder[j] = t

\* ------------------------------------------------------------------------
\* Properties of the loop in steps (SpecSeq)
\* ------------------------------------------------------------------------

\* how many lines have been handled to the end
Handled == IF pc \in {"read", "stopped"} THEN cur ELSE cur - 1

\* the requests that the protocol answers whatever the session state
AlwaysAnswered == {"tools/list", "call", "load"}

C11_Inv ==
  /\ Len(stdout) <= Handled
  /\ \A k \in 1..Len(stdout) :
       /\ stdout[k].req \in 1..Handled
       /\ stdout[k].id = stdin[stdout[k].req].id
  /\ \A k, l \in 1..Len(stdout) : k < l => stdout[k].req < stdout[l].req
  /\ \A i \in 1..Handled :
       stdin[i].kind \in AlwaysAnswered => \E k \in 1..Len(stdout) : stdout[k].req = i
  /\ pc = "execute" => stdin[cur].kind = "call" /\ step.executed # ""

C11_Act ==
  /\ cur' # cur => (pc = "read" /\ cur' = cur + 1 /\ Len(stdout) <= cur)
  /\ stdout' # stdout =>
       /\ pc = "write"
       /\ Len(stdout') = Len(stdout) + 1
       /\ SubSeq(stdout', 1, Len(stdout)) = stdout
       /\ stdout'[Len(stdout')].req = cur
  /\ pc' = "execute" => pc = "line"

\* C11: a line is read only when the line before has been handled to the
\* end and its response, if any, written; execute is in progress for the
\* line being handled only; the responses are in the order of their
\* requests, each with the id of its request.
C11_LoopStrictlySequential == []C11_Inv /\ [][C11_Act]_vars

\* C11 witness: the input has ended with two responses of different ids,
\* the second from execute, and a request without response between them
C11_Witness ==
  /\ pc = "stopped"
  /\ Len(stdout) = 2
  /\ stdout[1].id # stdout[2].id
  /\ stdout[1].req + 1 < stdout[2].req
  /\ stdout[2].text \in {"exec_result", "exec_error"}

C12_Inv ==
  /\ \A k \in 1..Len(stdout) : stdin[stdout[k].req].kind # "malformed"
  /\ \A i \in 1..Handled :
       stdin[i].kind \in AlwaysAnswered =>
         Cardinality({k \in 1..Len(stdout) : stdout[k].req = i}) = 1
  /\ \A k, l \in 1..Len(stdout) : k < l => stdout[k].req < stdout[l].req
  /\ (/\ pc = "stopped" /\ Len(stdin) = 2
      /\ stdin[1].kind = "malformed" /\ stdin[2].kind = "tools/list") =>
       stdout = <<[id |-> stdin[2].id, req |-> 2, text |-> "tools"]>>
  /\ pc = "stopped" => cur = Len(stdin)

C12_Act ==
  (pc = "line" /\ stdin[cur].kind = "malformed") =>
    /\ UNCHANGED <<PROFILES, enabled_modules, services, tool_to_service,
                   clients, connects, stdout>>
    /\ running'
    /\ pc' = "read"

\* C12: a line that is not valid JSON gets no response, leaves the session
\* as it was and does not end the loop; the responses written are those of
\* the valid requests, in order, whatever malformed lines lie between them.
C12_MalformedLineSkipped == []C12_Inv /\ [][C12_Act]_vars

\* C12 witness: the input has ended; a malformed line lay between two
\* valid requests and both were answered
C12_Witness ==
  /\ pc = "stopped"
  /\ Len(stdin) = 3
  /\ stdin[2].kind = "malformed"
  /\ Len(stdout) = 2
  /\ stdout[1].req = 1
  /\ stdout[2].req = 3

\* ------------------------------------------------------------------------
\* Properties of _parse_call_syntax (SpecParse)
\* ------------------------------------------------------------------------

\* the parser has been applied to the call string
Parsed == call.fn = "_parse_call_syntax" /\ call.done

DoubleColon == <<":", ":">>

\* i is where the first "::" of s starts
IsFirstDoubleColon(s, i) ==
  /\ OccursAt(s, DoubleColon, i)
  /\ \A j \in 1..(i - 1) : ~OccursAt(s, DoubleColon, j)

Dots(s) == {i \in 1..Len(s) : s[i] = "."}

\* C16: a call string that contains "::" is split once at its first "::";
\* the result is the Asset variant when the part before starts with "/",
\* and otherwise the Static variant of the part before and the part after;
\* it is never the Actor or the Error variant, whatever dots there are.
C16_DoubleColonIsStaticOrAsset ==
  (Parsed /\ \E i \in 1..Len(call.arg) : OccursAt(call.arg, DoubleColon, i)) =>
    \E i \in 1..Len(call.arg) :
      /\ IsFirstDoubleColon(call.arg, i)
      /\ LET before == SubSeq(call.arg, 1, i - 1)
             after == SubSeq(call.arg, i + 2, Len(call.arg))
         IN  /\ call.result.type \in {"asset", "static"}
             /\ call.result.function = after
             /\ (Len(before) > 0 /\ before[1] = "/") => call.result.type = "asset"
             /\ ~(Len(before) > 0 /\ before[1] = "/") =>
                  call.result = [type |-> "static", target |-> before,
                                 function |-> after]

\* C16 witness: a Static result for a string with dots on both sides of a
\* "::" that is followed by another colon
C16_Witness ==
  /\ Parsed
  /\ call.result.type = "static"
  /\ Dots(call.result.target) # {}
  /\ Dots(call.result.function) # {}
  /\ \E i \in 1..Len(call.result.function) : call.result.function[i] = ":"

\* C17: for every call string, the empty one too, the parser returns one of
\* the four variants, and it returns the Error variant, with a non-empty
\* message, exactly when the string has neither "::" nor ".".
C17_ParserTotalErrorIffNoSeparator ==
  Parsed =>
    /\ call.result.type \in {"asset", "static", "actor", "error"}
    /\ call.result.type = "error" <=>
         /\ \A i \in 1..Len(call.arg) : ~OccursAt(call.arg, DoubleColon, i)
         /\ Dots(call.arg) = {}
    /\ call.result.type = "error" =>
         /\ DOMAIN call.result = {"type", "message"}
         /\ Len(call.result.message) > 0

\* C17 witness: the Error variant for a string with a single colon
C17_Witness ==
  /\ Parsed
  /\ call.result.type = "error"
  /\ \E i \in 1..Len(call.arg) : call.arg[i] = ":"

\* C18: for an Asset call only the segment after the last "/" of the target
\* decides: with more than two dot-separated parts (two dots or more) the
\* result target ends at the second dot of that segment and subobject is
\* the rest, so that target + "." + subobject is the original target;
\* otherwise the target is returned as it is and there is no subobject.
C18_AssetSubobjectSplit ==
  (Parsed /\ call.result.type = "asset") =>
    \E i \in 1..Len(call.arg) :
      /\ IsFirstDoubleColon(call.arg, i)
      /\ LET target == SubSeq(call.arg, 1, i - 1)
             slashes == {k \in 1..Len(target) : target[k] = "/"}
             last_slash == CHOOSE k \in slashes : \A j \in slashes : j <= k
             seg_dots == {k \in Dots(target) : k > last_slash}
         IN  IF Cardinality(seg_dots) >= 2
             THEN /\ DOMAIN call.result = {"type", "target", "function", "subobject"}
                  /\ call.result.target \o <<".">> \o call.result.subobject = target
                  /\ Cardinality({k \in seg_dots : k <= Len(call.result.target)}) = 1
             ELSE /\ DOMAIN call.result = {"type", "target", "function"}
                  /\ call.result.target = target

\* C18 witness: an Asset result whose subobject is not empty
C18_Witness ==
  /\ Parsed
  /\ call.result.type = "asset"
  /\ "subobject" \in DOMAIN call.result
  /\ call.result.subobject # <<>>

\* C19: a call string without "::" that has a "." gives the Actor variant
\* whose function is the text after the last "."; when the text before that
\* dot has a "." too, actor is the text before the first "." and component
\* the text between the first and the last "."; otherwise actor is all the
\* text before the dot and the result has no component field.
C19_ActorSplit ==
  (Parsed /\ Dots(call.arg) # {}
     /\ \A i \in 1..Len(call.arg) : ~OccursAt(call.arg, DoubleColon, i)) =>
    LET first == CHOOSE k \in Dots(call.arg) : \A j \in Dots(call.arg) : k <= j
        last == CHOOSE k \in Dots(call.arg) : \A j \in Dots(call.arg) : j <= k
    IN  /\ call.result.type = "actor"
        /\ call.result.function = SubSeq(call.arg, last + 1, Len(call.arg))
        /\ IF first < last
           THEN call.result =
                  [type |-> "actor", target |-> SubSeq(call.arg, 1, first - 1),
                   function |-> SubSeq(call.arg, last + 1, Len(call.arg)),
                   component |-> SubSeq(call.arg, first + 1, last - 1)]
           ELSE call.result =
                  [type |-> "actor", target |-> SubSeq(call.arg, 1, last - 1),
                   function |-> SubSeq(call.arg, last + 1, Len(call.arg))]

\* C19 witness: an Actor result whose component itself has a dot
C19_Witness ==
  /\ Parsed
  /\ call.result.type = "actor"
  /\ "component" \in DOMAIN call.result
  /\ Dots(call.result.component) # {}

\* ------------------------------------------------------------------------
\* Properties of the value codec (SpecCodec)
\* ------------------------------------------------------------------------

\* the tag that the stated order of rules gives a dict with the key set K
TagByStatedOrder(K) ==
  IF K = {"x", "y", "z"} THEN "VECTOR"
  ELSE IF K \cap {"pitch", "yaw", "roll"} # {} THEN "ROTATOR"
  ELSE IF {"r", "g", "b"} \subseteq K THEN "COLOR"
  ELSE "STRUCT"

\* the form of the text of _normalize_property_value that stands for a tag
FormOfTag(tag) ==
  CASE tag = "VECTOR" -> "(X=,Y=,Z=)"
    [] tag = "ROTATOR" -> "(Pitch=,Yaw=,Roll=)"
    [] tag = "COLOR" -> "(R=,G=,B=,A=)"
    [] tag = "STRUCT" -> "json"

\* C20: for every dict the tag is chosen by the first rule that matches, in
\* this order: the key set is exactly {x,y,z} -> Vector; else any of pitch,
\* yaw, roll is a key -> Rotator, a missing component being 0; else r, g and
\* b are all keys -> Color, a missing `a` being 1.0; else Struct with every
\* field encoded in turn.
C20_DictTagByFirstMatchingRule ==
  (call.done /\ call.fn \in CodecFunctions) =>
    LET K == DOMAIN call.arg.v
        tag == TagByStatedOrder(K)
        res == call.result
    IN  IF call.fn = "_normalize_property_value"
        THEN res.form = FormOfTag(tag)
        ELSE /\ res.type = tag
             /\ tag = "ROTATOR" =>
                  /\ res.pitch = GetFloat(call.arg, "pitch", 0)
                  /\ res.yaw = GetFloat(call.arg, "yaw", 0)
                  /\ res.roll = GetFloat(call.arg, "roll", 0)
             /\ tag = "COLOR" =>
                  /\ res.r = call.arg.v["r"].v /\ res.g = call.arg.v["g"].v
                  /\ res.b = call.arg.v["b"].v
                  /\ res.a = GetFloat(call.arg, "a", 1)
             /\ tag = "VECTOR" =>
                  /\ res.x = call.arg.v["x"].v /\ res.y = call.arg.v["y"].v
                  /\ res.z = call.arg.v["z"].v
             /\ tag = "STRUCT" =>
                  /\ DOMAIN res.struct_values = K
                  /\ \A k \in K :
                       res.struct_values[k].type =
                         IF call.arg.v[k].t = "int" THEN "INT"
                         ELSE TagByStatedOrder(DOMAIN call.arg.v[k].v)

\* ------------------------------------------------------------------------
\* Properties of the codec on sequences (SpecList)
\* ------------------------------------------------------------------------

\* the tag that the stated rules give a list under a hint
TagOfList(value, property_hint) ==
  IF Len(value.v) = 3
  THEN IF is_color_hint(property_hint) THEN "COLOR"
       ELSE IF is_rotation_hint(property_hint) THEN "ROTATOR"
       ELSE "VECTOR"
  ELSE IF Len(value.v) = 4 THEN "COLOR"
  ELSE "ARRAY"

\* the numbers of a list
NumbersOf(value) == [i \in 1..Len(value.v) |-> FloatOf(value.v[i])]

\* C21: for every sequence value, encode classifies by length and hint:
\* length 3 with a hint indicating "color" -> Color (r, g, b, alpha 1.0);
\* length 3 with a hint indicating "rotation" -> Rotator in (pitch, yaw,
\* roll) positional order; length 3 with any other or no hint -> Vector
\* (x, y, z); length 4 -> Color (r, g, b, a) whatever the hint; any other
\* length -> generic Array with one encoded element per item.  Stated for
\* both encoders, and for lists of numbers where the length is 3 or 4.
C21_ListTagByLengthAndHint ==
  (/\ call.done
   /\ call.fn \in CodecFunctions
   /\ Len(call.arg.value.v) \in {3, 4} => ListFloatsReturn(call.arg.value)) =>
    LET value == call.arg.value
        tag == TagOfList(value, call.arg.property_hint)
        n == NumbersOf(value)
        res == call.result
    IN  IF call.fn = "_normalize_property_value"
        THEN /\ res.form = FormOfTag(IF tag = "ARRAY" THEN "STRUCT" ELSE tag)
             /\ tag = "VECTOR" => <<res.x, res.y, res.z>> = n
             /\ tag = "ROTATOR" => <<res.pitch, res.yaw, res.roll>> = n
             /\ tag = "COLOR" =>
                  <<res.r, res.g, res.b, res.a>> =
                    IF Len(n) = 3 THEN Append(n, 1) ELSE n
             /\ tag = "ARRAY" => res.json = value
        ELSE /\ res.type = tag
             /\ tag = "VECTOR" => <<res.x, res.y, res.z>> = n
             /\ tag = "COLOR" =>
                  <<res.r, res.g, res.b, res.a>> =
                    IF Len(n) = 3 THEN Append(n, 1) ELSE n
             /\ tag = "ARRAY" => Len(res.array_values) = Len(value.v)

\* C21, the part that holds: _normalize_property_value classifies every list
\* of numbers as stated, and _set_property_value makes every list an Array
C21_NormalizeClassifiesSetDoesNot ==
  (/\ call.done
   /\ call.fn \in CodecFunctions
   /\ ListFloatsReturn(call.arg.value)) =>
    IF call.fn = "_normalize_property_value"
    THEN call.result.form =
           FormOfTag(IF TagOfList(call.arg.value, call.arg.property_hint) = "ARRAY"
                     THEN "STRUCT"
                     ELSE TagOfList(call.arg.value, call.arg.property_hint))
    ELSE call.result.type = "ARRAY"

\* ------------------------------------------------------------------------
\* Properties of the round trip (SpecRound)
\* ------------------------------------------------------------------------

\* Python's a == b: numbers by their value, dicts and lists item by item
RECURSIVE PyEq(_, _)
PyEq(a, b) ==
  IF IsNumber(a) /\ IsNumber(b) THEN FloatOf(a) = FloatOf(b)
  ELSE IF a.t # b.t THEN FALSE
  ELSE IF a.t = "dict"
  THEN /\ DOMAIN a.v = DOMAIN b.v
       /\ \A k \in DOMAIN a.v : PyEq(a.v[k], b.v[k])
  ELSE IF a.t = "list"
  THEN /\ Len(a.v) = Len(b.v)
       /\ \A i \in 1..Len(a.v) : PyEq(a.v[i], b.v[i])
  ELSE a.v = b.v

\* the round trip is over
Decoded == call.done /\ call.fn = "_property_value_to_dict"

RECURSIVE ExactKeySets(_)
ExactKeySets(value) ==
  IF value.t = "list"
  THEN \A i \in 1..Len(value.v) : ExactKeySets(value.v[i])
  ELSE IF value.t # "dict" THEN TRUE
  ELSE IF IsVectorDict(value) THEN TRUE
  ELSE IF IsRotatorDict(value)
  THEN DOMAIN value.v = {"pitch", "yaw", "roll"}
  ELSE IF IsColorDict(value)
  THEN DOMAIN value.v = {"r", "g", "b", "a"}
  ELSE \A k \in DOMAIN value.v : ExactKeySets(value.v[k])

C22_Inv ==
  (Decoded /\ ExactKeySets(call.arg)) => PyEq(call.result.value, call.arg)

C22_Act == call'.arg = call.arg

IsHexColor(s) ==
  /\ Len(s) \in {7, 9}
  /\ s[1] = "#"
  /\ \A i \in 2..Len(s) : IsHexDigit(s[i])

\* the value of the k-th two-digit byte after the "#"
ByteAt(s, k) == 16 * DigitValue(s[2 * k]) + DigitValue(s[2 * k + 1])

\* C23: every string made of "#" followed by exactly 6 or 8 hexadecimal
\* digits is converted to a Color whose r, g, b are the successive two-digit
\* byte values divided by 255 and whose alpha is the fourth byte divided by
\* 255, or 1.0 for the 6-digit form, so that every channel lies in [0,1];
\* every other string is passed through unchanged.
C23_HexColorOrUnchanged ==
  (call.done /\ call.fn = "_normalize_property_value") =>
    LET s == call.arg.v
        res == call.result
    IN  IF IsHexColor(s)
        THEN /\ res.form = "(R=,G=,B=,A=)"
             /\ res.r = ByteAt(s, 1) /\ res.g = ByteAt(s, 2) /\ res.b = ByteAt(s, 3)
             /\ res.a = IF Len(s) = 9 THEN ByteAt(s, 4) ELSE 255
             /\ \A c \in {res.r, res.g, res.b, res.a} : c \in 0..255
        ELSE res = [form |-> "str", text |-> s]

\* C23, the part that holds: the strings of "#" and 6 or 8 hex digits are
\* converted as stated
C23_HexDigitsConverted ==
  (call.done /\ call.fn = "_normalize_property_value" /\ IsHexColor(call.arg.v)) =>
    LET s == call.arg.v
        res == call.result
    IN  /\ res.form = "(R=,G=,B=,A=)"
        /\ res.r = ByteAt(s, 1) /\ res.g = ByteAt(s, 2) /\ res.b = ByteAt(s, 3)
        /\ res.a = IF Len(s) = 9 THEN ByteAt(s, 4) ELSE 255
        /\ \A c \in {res.r, res.g, res.b, res.a} : c \in 0..255

\* ------------------------------------------------------------------------
\* Properties of the path normalizers (SpecPath)
\* ------------------------------------------------------------------------

\* the strings over the characters of the pieces
IsString(x) ==
  /\ DOMAIN x = 1..Len(x)
  /\ \A i \in 1..Len(x) : x[i] \in UNION {Range(p) : p \in PathPieces}

\* C24: both path normalizers are idempotent and total: for every string x
\* (the empty string, names that are not absolute, paths that have their
\* suffix, "/" and paths ending in "/" among them) f(f(x)) = f(x) for
\* _normalize_asset_path and for _normalize_blueprint_class, and each call
\* returns a string.
C24_NormalizersIdempotentTotal ==
  /\ (call.fn \in PathFunctions /\ Len(call.result) >= 1) => IsString(call.result[1])
  /\ (call.fn \in PathFunctions /\ call.done) =>
       /\ IsString(call.result[2])
       /\ call.result[2] = call.result[1]

\* C24 witness: a path that ends in "/" got its suffix at the first call and
\* kept it at the second
C24_Witness ==
  /\ call.fn = "_normalize_asset_path"
  /\ call.done
  /\ Len(call.arg) > 1
  /\ call.arg[Len(call.arg)] = "/"
  /\ call.result[1] = call.arg \o <<".">>
  /\ call.result[2] = call.result[1]

\* the class name was handed to _normalize_blueprint_class
ClassNormalized ==
  call.fn = "_normalize_blueprint_class" /\ Len(call.result) >= 1

\* C25 as stated: the name is returned unchanged when it ends with "_C";
\* otherwise "_C" is appended to every name that contains a "/" and to every
\* name that starts with "BP_" and contains no "/", and every other name is
\* returned unchanged.
C25_MarkerOnEveryPath ==
  ClassNormalized =>
    LET name == call.arg
    IN  call.result[1] =
          IF EndsWith(name, <<"_", "C">>) THEN name
          ELSE IF Contains(name, <<"/">>) \/ StartsWith(name, <<"B", "P", "_">>)
          THEN name \o <<"_", "C">>
          ELSE name

\* C25 amended: the name is returned unchanged when it ends with "_C";
\* otherwise "_C" is appended to every name that contains "/Game/" or
\* "/Script/" or that starts with "/" and contains a ".", and to every name
\* that starts with "BP_" and contains no "/"; every other name is returned
\* unchanged.
C25_MarkerOnContentPaths ==
  ClassNormalized =>
    LET name == call.arg
    IN  call.result[1] =
          IF EndsWith(name, <<"_", "C">>) THEN name
          ELSE IF \/ Contains(name, <<"/", "G", "a", "m", "e", "/">>)
                  \/ Contains(name, <<"/", "S", "c", "r", "i", "p", "t", "/">>)
                  \/ (name # <<>> /\ name[1] = "/" /\ Contains(name, <<".">>))
                  \/ (StartsWith(name, <<"B", "P", "_">>) /\ ~Contains(name, <<"/">>))
          THEN name \o <<"_", "C">>
          ELSE name

\* C25 witness: a name with a "/" that is no content path and has no "."
\* was returned unchanged
C25_Witness ==
  /\ ClassNormalized
  /\ Contains(call.arg, <<"/">>)
  /\ ~EndsWith(call.arg, <<"_", "C">>)
  /\ call.result[1] = call.arg

\* ------------------------------------------------------------------------
\* Properties of the remediation of the "is not loaded" error (Spec)
\* ------------------------------------------------------------------------

\* C26: the remediation named in the "is not loaded" error works: when the
\* module M that the error names for the tool T has just been activated by a
\* load_modules call that returned, a tools/call for T is resolved through
\* the tool index and dispatched; it is answered neither with the "is not
\* loaded" error nor with "Unknown tool".
C26_RemediationWorks ==
  [][(/\ step.text = "load_result"
      /\ IsToolsCall(step')
      /\ step'.name \in CatalogTools
      /\ module_for_tool(step'.name) \in Range(step.loaded_modules))
       => step'.text \notin {"not_loaded", "unknown_tool"}]_vars

\* ------------------------------------------------------------------------
\* Properties of the tool call_function (SpecCallFunction)
\* ------------------------------------------------------------------------

\* C27: call_function issues exactly one backend invocation whose style
\* matches the parsed variant: Static -> one static-function call with the
\* class and the function; Asset -> one asset-function call with the path,
\* the function and the subobject (or empty); Actor -> one actor-function
\* call with the actor, the function and the component (or empty); on
\* success it returns success with the matching call_type.  When the parse
\* is the Error variant it issues no backend call and returns an error
\* payload carrying the parser's message.
C27_OneCallOfTheParsedStyle ==
  (call.done /\ call.fn = "call_function") =>
    LET parsed == parse_call_syntax(call.arg)
        did == call.result
    IN  IF parsed.type = "error"
        THEN /\ did.invocations = <<>>
             /\ ~did.raised
             /\ did.returned = [error |-> parsed.message]
        ELSE /\ Len(did.invocations) = 1
             /\ ~did.raised
             /\ parsed.type = "static" =>
                  did.invocations[1] =
                    [style |-> "call_static_function",
                     class_name |-> parsed.target,
                     function_name |-> parsed.function]
             /\ parsed.type = "asset" =>
                  did.invocations[1] =
                    [style |-> "call_asset_function",
                     asset_path |-> parsed.target,
                     function_name |-> parsed.function,
                     subobject_path |-> GetOrEmpty(parsed, "subobject")]
             /\ parsed.type = "actor" =>
                  did.invocations[1] =
                    [style |-> "tempo.call_function",
                     actor |-> parsed.target,
                     function |-> parsed.function,
                     component |-> GetOrEmpty(parsed, "component")]
             /\ \/ IsErrorDict(did.returned)
                \/ /\ did.returned.success
                   /\ did.returned.call_type = parsed.type

\* ------------------------------------------------------------------------
\* Properties of the tools get_property and set_property (SpecProperty)
\* ------------------------------------------------------------------------

\* the tool call is over
PropertyDone == call.done /\ call.fn \in PropertyTools

C29_ActiveModulesDistinctCatalogNames ==
  /\ \A i, j \in 1..Len(enabled_modules) :
       enabled_modules[i] = enabled_modules[j] => i = j
  /\ Range(enabled_modules) \subseteq ModuleNames
  /\ step.text = "load_result" =>
       step.total_modules = Cardinality(Range(enabled_modules) \cap ModuleNames)

\* ------------------------------------------------------------------------
\* Properties of the tool results (SpecService)
\* ------------------------------------------------------------------------

\* C30: a tool result reports success only if the backend call it issued
\* completed without error: for every dispatched tool (tempo_play,
\* tempo_pause, tempo_step, tempo_load_level, play_in_editor and stop among
\* them), whenever the backend call fails, what the tool returns carries an
\* error and never `success: true`.
C30_SuccessOnlyIfBackendReturned ==
  (call.done /\ call.fn \in PropertyTools \cup SimulationTools) =>
    LET did == call.result.did
        last == Len(did.invocations)
    IN  (last > 0 /\ call.result.backend[last] = "fails") =>
          /\ IsErrorDict(did.returned)
          /\ "success" \notin DOMAIN did.returned

====
